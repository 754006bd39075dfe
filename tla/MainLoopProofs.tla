--------------------------- MODULE MainLoopProofs ---------------------------
(***************************************************************************)
(* Theorems about MainLoop for any number of tabs, sessions, keys, widths, *)
(* attempts and pieces of output: its types; that events reach the tab of  *)
(* their session, and that the loop never waits with a closed tab in       *)
(* front; that a grid has the width of its PTY and fills its place on the  *)
(* screen; that output arrives in order and, where the loop allows it,     *)
(* complete; that a session that ended closes its tab; and that what       *)
(* changes the screen asks for a draw.                                     *)
(***************************************************************************)
EXTENDS MainLoop, SequenceTheorems, WellFoundedInduction, TLAPS

SessionType ==
  [phase : {"connecting", "running", "broken", "over"}, told : BOOLEAN,
   tag : Nat \ {0}, pty : Nat, sent : 0 .. MaxData, commands : Seq(Commands)]

(* The events and tabs of n sessions.                                      *)
EventType(n) ==
  {e \in [tag : Nat \ {0}, session : 1 .. n, kind : {"data", "closed"}, n : 0 .. MaxData] :
     e.kind = "data" => e.n > 0}
TabType(n)   == [session : 1 .. n, cols : Nat, fed : Seq([session : 1 .. n, n : 1 .. MaxData])]

NetOK ==
  /\ sessions \in Seq(SessionType)
  /\ events \in Seq(EventType(Len(sessions)))
  /\ results \in Seq(0 .. Len(sessions))

LayoutOK ==
  /\ tabs \in Seq(TabType(Len(sessions)))
  /\ closed \in [1 .. Len(tabs) -> BOOLEAN]
  /\ active \in 1 .. Len(tabs)
  /\ \/ split = NoSplit
     \/ /\ split \in [l : 1 .. Len(tabs), r : 1 .. Len(tabs), focus : {"left", "right"}]
        /\ split.l # split.r

ScreenOK ==
  /\ dialog \in BOOLEAN /\ failed \in BOOLEAN /\ connecting \in BOOLEAN
  /\ dirty \in BOOLEAN /\ done \in BOOLEAN
  /\ term \in Widths /\ resizes \in Seq(Widths)

Types == NetOK /\ LayoutOK /\ ScreenOK

-----------------------------------------------------------------------------
(* Sequences.                                                              *)

(* Replacing an element of a sequence.                                     *)
LEMMA ReplaceInSeq ==
  ASSUME NEW T, NEW q \in Seq(T), NEW i \in 1 .. Len(q), NEW x \in T
  PROVE  /\ [q EXCEPT ![i] = x] \in Seq(T)
         /\ Len([q EXCEPT ![i] = x]) = Len(q)
         /\ [q EXCEPT ![i] = x][i] = x
         /\ \A j \in 1 .. Len(q) : j # i => [q EXCEPT ![i] = x][j] = q[j]
BY ExceptSeq

(* A function on 1 .. n is a sequence of length n.                         *)
LEMMA FunctionIsSeq ==
  ASSUME NEW S, NEW n \in Nat, NEW f \in [1 .. n -> S]
  PROVE  f \in Seq(S) /\ Len(f) = n
OBVIOUS

-----------------------------------------------------------------------------
(* next_open_tab.                                                          *)

(* Walking round n places from a stays among them, whichever way.          *)
LEMMA StepsStay ==
  ASSUME NEW n \in Nat \ {0}, NEW a \in 1 .. n, NEW k \in 1 .. n
  PROVE  Ahead(a, n, k) \in 1 .. n /\ Behind(a, n, k) \in 1 .. n
<1>1. a - 1 + k \in Nat
  OBVIOUS
<1>2. k * (n - 1) \in Nat
  OBVIOUS
<1>3. a - 1 + k * (n - 1) \in Nat
  BY <1>2
<1>4. \A m \in Nat : m % n \in 0 .. n - 1
  OBVIOUS
<1> QED
  BY <1>1, <1>3, <1>4 DEF Ahead, Behind

(* And ahead it comes to every place.                                      *)
LEMMA AheadReachesAll ==
  ASSUME NEW n \in Nat \ {0}, NEW a \in 1 .. n, NEW j \in 1 .. n
  PROVE  \E k \in 1 .. n : Ahead(a, n, k) = j
<1>1. \A x \in 0 .. n - 1 : x % n = x
  OBVIOUS
<1>2. \A x \in 0 .. n - 1 : (x + n) % n = x
  OBVIOUS
<1>3. CASE j > a
  <2>1. j - a \in 1 .. n /\ a - 1 + (j - a) = j - 1
    BY <1>3
  <2>2. Ahead(a, n, j - a) = j
    BY <2>1, <1>1 DEF Ahead
  <2> QED
    BY <2>1, <2>2
<1>4. CASE j <= a
  <2>1. j - a + n \in 1 .. n /\ a - 1 + (j - a + n) = (j - 1) + n
    BY <1>4
  <2>2. Ahead(a, n, j - a + n) = j
    BY <2>1, <1>2 DEF Ahead
  <2> QED
    BY <2>1, <2>2
<1> QED
  BY <1>3, <1>4

(* A set of numbers that is not empty has a least one.                     *)
LEMMA LeastNumber ==
  ASSUME NEW S \in SUBSET Nat, S # {}
  PROVE  (CHOOSE k \in S : \A j \in S : k <= j) \in S
<1> DEFINE less == {p \in Nat \X Nat : p[1] < p[2]}
<1>1. IsWellFoundedOn(less, Nat)
  BY NatLessThanWellFounded DEF OpToRel
<1>2. PICK k \in S : \A j \in S : <<j, k>> \notin less
  <2> HIDE DEF less
  <2> QED
    BY <1>1, WFMin
<1>3. \A j \in S : k <= j
  <2> TAKE j \in S
  <2>1. <<j, k>> \in Nat \X Nat /\ <<j, k>>[1] = j /\ <<j, k>>[2] = k
    OBVIOUS
  <2>2. ~(j < k)
    BY <2>1, <1>2
  <2> QED
    BY <2>2
<1> QED
  BY <1>3

(* The tab found is one of the tabs, and it is open if any is.             *)
LEMMA NextOpenIsOpen ==
  ASSUME NEW n \in Nat \ {0}, NEW c \in [1 .. n -> BOOLEAN], Len(c) = n, NEW a \in 1 .. n
  PROVE  /\ NextOpen(c, a) \in 1 .. n
         /\ PreviousOpen(c, a) \in 1 .. n
         /\ c[NextOpen(c, a)] => \A i \in 1 .. n : c[i]
<1> DEFINE ahead  == {k \in 1 .. n : ~c[Ahead(a, n, k)]}
           behind == {k \in 1 .. n : ~c[Behind(a, n, k)]}
           Least(S) == CHOOSE k \in S : \A j \in S : k <= j
<1>1. ahead # {} => Least(ahead) \in ahead
  <2>1. ahead \in SUBSET Nat
    OBVIOUS
  <2> HIDE DEF ahead
  <2> QED
    BY <2>1, LeastNumber
<1>2. behind # {} => Least(behind) \in behind
  <2>1. behind \in SUBSET Nat
    OBVIOUS
  <2> HIDE DEF behind
  <2> QED
    BY <2>1, LeastNumber
<1>3. NextOpen(c, a) = IF ahead = {} THEN a ELSE Ahead(a, n, Least(ahead))
  BY DEF NextOpen, Nearest
<1>4. PreviousOpen(c, a) = IF behind = {} THEN a ELSE Behind(a, n, Least(behind))
  BY DEF PreviousOpen, Nearest
<1>5. ahead = {} => \A i \in 1 .. n : c[i]
  <2> SUFFICES ASSUME ahead = {}, NEW i \in 1 .. n PROVE c[i]
    OBVIOUS
  <2>1. PICK k \in 1 .. n : Ahead(a, n, k) = i
    BY AheadReachesAll
  <2>2. k \notin ahead
    OBVIOUS
  <2> QED
    BY <2>1, <2>2
<1>6. ahead # {} => Ahead(a, n, Least(ahead)) \in 1 .. n /\ ~c[Ahead(a, n, Least(ahead))]
  <2> HIDE DEF Least
  <2> QED
    BY <1>1, StepsStay
<1>7. behind # {} => Behind(a, n, Least(behind)) \in 1 .. n
  <2> HIDE DEF Least
  <2> QED
    BY <1>2, StepsStay
<1> HIDE DEF Least, ahead, behind
<1> QED
  BY <1>3, <1>4, <1>5, <1>6, <1>7

-----------------------------------------------------------------------------
(* TypeOK in terms of the numbers of sessions and tabs.                    *)
LEMMA TypesAreTypeOK == Types => TypeOK
<1> SUFFICES ASSUME Types PROVE TypeOK
  OBVIOUS
<1>1. DOMAIN sessions = 1 .. Len(sessions) /\ DOMAIN tabs = 1 .. Len(tabs)
  BY DEF Types, NetOK, LayoutOK
<1>2. {0} \cup DOMAIN sessions = 0 .. Len(sessions)
  BY <1>1 DEF Types, NetOK
<1>3. events \in Seq([tag : Nat \ {0}, session : 1 .. Len(sessions), kind : {"data", "closed"},
                      n : 0 .. MaxData])
  <2>1. EventType(Len(sessions)) \subseteq
          [tag : Nat \ {0}, session : 1 .. Len(sessions), kind : {"data", "closed"}, n : 0 .. MaxData]
    BY DEF EventType
  <2> QED
    BY <2>1, SeqMonotonic DEF Types, NetOK
<1> QED
  BY <1>1, <1>2, <1>3 DEF Types, NetOK, LayoutOK, ScreenOK, TypeOK, SessionType, TabType

(* What an action leaves alone keeps its type, when no session is added.   *)
LEMMA SameSessions ==
  ASSUME Types, sessions' \in Seq(SessionType), Len(sessions') = Len(sessions)
  PROVE  /\ UNCHANGED events => events' \in Seq(EventType(Len(sessions')))
         /\ UNCHANGED results => results' \in Seq(0 .. Len(sessions'))
         /\ UNCHANGED layout => LayoutOK'
BY DEF Types, NetOK, LayoutOK, layout

(* Changing one session.                                                   *)
LEMMA OneSession ==
  ASSUME Types, NEW s \in 1 .. Len(sessions), NEW x \in SessionType,
         sessions' = [sessions EXCEPT ![s] = x]
  PROVE  sessions' \in Seq(SessionType) /\ Len(sessions') = Len(sessions)
BY ReplaceInSeq DEF Types, NetOK

(* Appending keeps the type of a sequence.                                 *)
LEMMA AppendInSeq ==
  ASSUME NEW T, NEW q \in Seq(T), NEW x \in T
  PROVE  Append(q, x) \in Seq(T)
OBVIOUS

(* The session of a tab.                                                   *)
LEMMA TabInType ==
  ASSUME Types, NEW i \in 1 .. Len(tabs)
  PROVE  tabs[i] \in TabType(Len(sessions)) /\ tabs[i].session \in 1 .. Len(sessions)
<1>1. tabs[i] \in TabType(Len(sessions))
  BY ElementOfSeq DEF Types, LayoutOK
<1> QED
  BY <1>1 DEF TabType

(* The fields of a session.                                                *)
LEMMA SessionInType ==
  ASSUME Types, NEW s \in 1 .. Len(sessions)
  PROVE  /\ sessions[s] \in SessionType
         /\ sessions[s].tag \in Nat \ {0}
         /\ sessions[s].sent \in 0 .. MaxData
         /\ sessions[s].told \in BOOLEAN
         /\ sessions[s].phase \in {"connecting", "running", "broken", "over"}
<1>1. sessions[s] \in SessionType
  BY ElementOfSeq DEF Types, NetOK
<1> QED
  BY <1>1 DEF SessionType

(* x and y agree on what decides where events go.                          *)
SameRoute(x, y) == x.phase = y.phase /\ x.told = y.told /\ x.tag = y.tag

(* A step that leaves every session's route, and every tab's session.      *)
Kept ==
  /\ Len(sessions') = Len(sessions)
  /\ \A s \in 1 .. Len(sessions) : SameRoute(sessions'[s], sessions[s])
  /\ Len(tabs') = Len(tabs)
  /\ \A i \in 1 .. Len(tabs) : tabs'[i].session = tabs[i].session

(* Sending a command keeps a session's type and its route.                 *)
LEMMA SendKeeps ==
  ASSUME Types, NEW s \in 1 .. Len(sessions), NEW c \in Commands
  PROVE  WithCommand(s, c) \in SessionType /\ SameRoute(WithCommand(s, c), sessions[s])
<1>1. sessions[s] \in SessionType
  BY DEF Types, NetOK
<1>2. Append(sessions[s].commands, c) \in Seq(Commands)
  BY <1>1, AppendInSeq DEF SessionType
<1> QED
  BY <1>1, <1>2 DEF WithCommand, SessionType, SameRoute

(* No command changes a session's type or its route.                       *)
LEMMA CommandsKeep ==
  ASSUME Types, NEW s \in 1 .. Len(sessions)
  PROVE  /\ CloseCommand(s) \in SessionType /\ SameRoute(CloseCommand(s), sessions[s])
         /\ WithCommand(s, [kind |-> "input"]) \in SessionType
         /\ SameRoute(WithCommand(s, [kind |-> "input"]), sessions[s])
         /\ \A w \in Nat : ResizeCommand(s, w) \in SessionType /\ SameRoute(ResizeCommand(s, w), sessions[s])
<1>1. [kind |-> "close"] \in Commands /\ [kind |-> "input"] \in Commands
  BY DEF Commands
<1>2. \A w \in Nat : [kind |-> "resize", cols |-> w] \in Commands
  BY DEF Commands
<1> QED
  BY <1>1, <1>2, SendKeeps DEF CloseCommand, ResizeCommand

(* resize_pane for some of the tabs.                                       *)
LEMMA ResizePanesKeeps ==
  ASSUME Types, NEW W \in SUBSET (1 .. Len(tabs)), NEW cols \in [W -> Nat], ResizePanes(cols)
  PROVE  /\ Kept
         /\ sessions' \in Seq(SessionType)
         /\ tabs' \in Seq(TabType(Len(sessions)))
<1> USE DEF Types
<1>1. /\ tabs \in [1 .. Len(tabs) -> TabType(Len(sessions))] /\ Len(tabs) \in Nat
      /\ sessions \in [1 .. Len(sessions) -> SessionType] /\ Len(sessions) \in Nat
  BY LenProperties DEF NetOK, LayoutOK
<1>2. \A i \in 1 .. Len(tabs) :
        LET t == IF i \in W THEN [tabs[i] EXCEPT !.cols = cols[i]] ELSE tabs[i]
        IN t \in TabType(Len(sessions)) /\ t.session = tabs[i].session
  BY <1>1 DEF TabType
<1>3. /\ tabs' \in [1 .. Len(tabs) -> TabType(Len(sessions))]
      /\ \A i \in 1 .. Len(tabs) : tabs'[i].session = tabs[i].session
  BY <1>1, <1>2 DEF ResizePanes
<1>4. \A s \in 1 .. Len(sessions) : \A w \in Nat :
        ResizeCommand(s, w) \in SessionType /\ SameRoute(ResizeCommand(s, w), sessions[s])
  BY CommandsKeep
<1>5. \A s \in 1 .. Len(sessions) :
        (\E i \in W : tabs[i].session = s)
          => cols[CHOOSE i \in W : tabs[i].session = s] \in Nat
  OBVIOUS
<1>6. /\ sessions' \in [1 .. Len(sessions) -> SessionType]
      /\ \A s \in 1 .. Len(sessions) : SameRoute(sessions'[s], sessions[s])
  <2>1. DOMAIN cols = W /\ DOMAIN sessions = 1 .. Len(sessions)
    BY <1>1
  <2>2. \A s \in 1 .. Len(sessions) : SameRoute(sessions[s], sessions[s])
    BY DEF SameRoute
  <2>3. sessions' = [s \in 1 .. Len(sessions) |->
                       IF \E i \in W : tabs[i].session = s
                       THEN ResizeCommand(s, cols[CHOOSE i \in W : tabs[i].session = s])
                       ELSE sessions[s]]
    BY <2>1 DEF ResizePanes
  <2> QED
    BY <1>1, <1>4, <1>5, <2>2, <2>3
<1> QED
  BY <1>1, <1>3, <1>6, FunctionIsSeq DEF Kept

(* Where the top of the loop leaves active: at an open tab, or done.       *)
LEMMA LoopTopMoves ==
  ASSUME NEW n \in Nat \ {0}, closed' \in [1 .. n -> BOOLEAN], NEW a \in 1 .. n, LoopTop(a)
  PROVE  /\ active' \in 1 .. n
         /\ done' \in BOOLEAN
         /\ ~done' => ~closed'[active']
<1>1. Len(closed') = n
  BY FunctionIsSeq
<1>2. /\ NextOpen(closed', a) \in 1 .. n
      /\ closed'[NextOpen(closed', a)] => \A i \in 1 .. n : closed'[i]
  BY <1>1, NextOpenIsOpen
<1> QED
  BY <1>2 DEF LoopTop

(* The widths of the panes.                                                *)
LEMMA PaneWidths ==
  ASSUME NEW w \in Nat \ {0}
  PROVE  SplitWidths(w).l \in Nat /\ SplitWidths(w).r \in Nat
BY DEF SplitWidths

(* The end of an arm of the loop that adds neither a tab nor a session.    *)
LEMMA LoopArm ==
  ASSUME Types, Kept, sessions' \in Seq(SessionType), tabs' \in Seq(TabType(Len(sessions))),
         closed' \in [1 .. Len(tabs) -> BOOLEAN],
         NEW a \in 1 .. Len(tabs), LoopTop(a),
         \/ split' = NoSplit
         \/ /\ split' \in [l : 1 .. Len(tabs), r : 1 .. Len(tabs), focus : {"left", "right"}]
            /\ split'.l # split'.r
  PROVE  LayoutOK' /\ ActiveIsOpen' /\ done' \in BOOLEAN
<1>1. Len(tabs) \in Nat \ {0}
  BY LenProperties DEF Types, LayoutOK
<1>2. active' \in 1 .. Len(tabs) /\ done' \in BOOLEAN /\ (~done' => ~closed'[active'])
  BY <1>1, LoopTopMoves
<1> QED
  BY <1>2 DEF LayoutOK, Kept, ActiveIsOpen

(* Leaving a split keeps every route.                                      *)
LEMMA LeaveSplitKeeps ==
  ASSUME Types, LeaveSplit
  PROVE  /\ Kept /\ split' = NoSplit
         /\ sessions' \in Seq(SessionType)
         /\ tabs' \in Seq(TabType(Len(sessions)))
<1>1. CASE split = NoSplit
  BY <1>1 DEF LeaveSplit, Kept, SameRoute, Types, NetOK, LayoutOK
<1>2. CASE split # NoSplit
  <2>1. term \in Nat /\ split.l \in 1 .. Len(tabs) /\ split.r \in 1 .. Len(tabs)
    BY <1>2, WidthAssumption DEF Types, LayoutOK, ScreenOK
  <2>2. /\ {split.l, split.r} \in SUBSET (1 .. Len(tabs))
        /\ [i \in {split.l, split.r} |-> term] \in [{split.l, split.r} -> Nat]
    BY <2>1
  <2>3. ResizePanes([i \in {split.l, split.r} |-> term]) /\ split' = NoSplit
    BY <1>2 DEF LeaveSplit
  <2> QED
    BY <2>2, <2>3, ResizePanesKeeps
<1> QED
  BY <1>1, <1>2

-----------------------------------------------------------------------------
(* The arms of the loop that leave every route: their types, and an open   *)
(* tab in front.                                                           *)

(* The next tab: an open one is active.                                    *)
LEMMA SwitchTabKeeps ==
  ASSUME Types, SwitchTab
  PROVE  Kept /\ sessions' \in Seq(SessionType) /\ LayoutOK' /\ ActiveIsOpen' /\ done' \in BOOLEAN
<1>1. /\ Kept /\ split' = NoSplit
      /\ sessions' \in Seq(SessionType)
      /\ tabs' \in Seq(TabType(Len(sessions)))
  BY LeaveSplitKeeps DEF SwitchTab
<1>2. Len(tabs) \in Nat \ {0} /\ closed \in [1 .. Len(tabs) -> BOOLEAN] /\ active \in 1 .. Len(tabs)
  BY LenProperties DEF Types, LayoutOK
<1>3. Len(closed) = Len(tabs)
  BY <1>2, FunctionIsSeq
<1>4. NextOpen(closed, active) \in 1 .. Len(tabs) /\ PreviousOpen(closed, active) \in 1 .. Len(tabs)
  BY <1>2, <1>3, NextOpenIsOpen
<1>5. PICK a \in {NextOpen(closed, active), PreviousOpen(closed, active)} : LoopTop(a)
  BY DEF SwitchTab
<1>6. a \in 1 .. Len(tabs)
  BY <1>4, <1>5
<1>7. closed' = closed
  BY DEF SwitchTab
<1> QED
  BY <1>1, <1>2, <1>5, <1>6, <1>7, LoopArm

(* The tab of a number, if it is open.                                     *)
LEMMA JumpToKeeps ==
  ASSUME Types, NEW i \in 1 .. 9, JumpTo(i)
  PROVE  Kept /\ sessions' \in Seq(SessionType) /\ LayoutOK' /\ ActiveIsOpen' /\ done' \in BOOLEAN
<1>1. /\ Kept /\ split' = NoSplit
      /\ sessions' \in Seq(SessionType)
      /\ tabs' \in Seq(TabType(Len(sessions)))
  BY LeaveSplitKeeps DEF JumpTo
<1>2. i \in 1 .. Len(tabs) /\ closed' = closed /\ LoopTop(i)
  BY LenProperties DEF JumpTo, Types, LayoutOK
<1>3. closed' \in [1 .. Len(tabs) -> BOOLEAN]
  BY <1>2 DEF Types, LayoutOK
<1> QED
  BY <1>1, <1>2, <1>3, LoopArm

(* A split of two open tabs, or the end of it.                             *)
LEMMA ToggleSplitKeeps ==
  ASSUME Types, ToggleSplit
  PROVE  Kept /\ sessions' \in Seq(SessionType) /\ LayoutOK' /\ ActiveIsOpen' /\ done' \in BOOLEAN
<1> DEFINE partner == NextOpen(closed, active)
           w == SplitWidths(term)
           cols == [i \in {active, partner} |-> IF i = active THEN w.l ELSE w.r]
<1>1. Len(tabs) \in Nat \ {0} /\ closed \in [1 .. Len(tabs) -> BOOLEAN] /\ active \in 1 .. Len(tabs)
  BY LenProperties DEF Types, LayoutOK
<1>2. partner \in 1 .. Len(tabs)
  BY <1>1, FunctionIsSeq, NextOpenIsOpen
<1>3. closed' = closed /\ LoopTop(active)
  BY DEF ToggleSplit
<1>4. CASE LeaveSplit
  BY <1>1, <1>3, <1>4, LeaveSplitKeeps, LoopArm
<1>5. CASE /\ CanSplit(partner, w)
           /\ ResizePanes(cols)
           /\ split' = [l |-> active, r |-> partner, focus |-> "left"]
  <2>1. w.l \in Nat /\ w.r \in Nat
    BY PaneWidths, WidthAssumption DEF Types, ScreenOK
  <2> HIDE DEF w, partner
  <2>2. {active, partner} \in SUBSET (1 .. Len(tabs)) /\ cols \in [{active, partner} -> Nat]
    BY <1>1, <1>2, <2>1
  <2>3. Kept /\ sessions' \in Seq(SessionType) /\ tabs' \in Seq(TabType(Len(sessions)))
    BY <1>5, <2>2, ResizePanesKeeps
  <2>4. /\ split' \in [l : 1 .. Len(tabs), r : 1 .. Len(tabs), focus : {"left", "right"}]
        /\ split'.l # split'.r
    BY <1>1, <1>2, <1>5 DEF CanSplit
  <2> QED
    BY <1>1, <1>3, <2>3, <2>4, LoopArm
<1> QED
  BY <1>4, <1>5 DEF ToggleSplit

(* The focus goes to the other pane.                                       *)
LEMMA ToggleFocusKeeps ==
  ASSUME Types, ToggleFocus
  PROVE  Kept /\ sessions' \in Seq(SessionType) /\ LayoutOK' /\ ActiveIsOpen' /\ done' \in BOOLEAN
<1>1. Kept /\ sessions' \in Seq(SessionType) /\ tabs' \in Seq(TabType(Len(sessions)))
  BY DEF ToggleFocus, Kept, SameRoute, Types, NetOK, LayoutOK
<1>2. /\ split \in [l : 1 .. Len(tabs), r : 1 .. Len(tabs), focus : {"left", "right"}]
      /\ split.l # split.r
  BY DEF ToggleFocus, Types, LayoutOK
<1>3. /\ split' \in [l : 1 .. Len(tabs), r : 1 .. Len(tabs), focus : {"left", "right"}]
      /\ split'.l # split'.r
  BY <1>2 DEF ToggleFocus
<1>4. PICK a \in {split.l, split.r} : LoopTop(a)
  BY DEF ToggleFocus
<1>5. a \in 1 .. Len(tabs)
  BY <1>2, <1>4
<1>6. closed' \in [1 .. Len(tabs) -> BOOLEAN]
  BY DEF ToggleFocus, Types, LayoutOK
<1> QED
  BY <1>1, <1>3, <1>4, <1>5, <1>6, LoopArm

(* Changing one session, its route aside.                                  *)
LEMMA OneSessionKept ==
  ASSUME Types, NEW s \in 1 .. Len(sessions), NEW x \in SessionType, SameRoute(x, sessions[s]),
         sessions' = [sessions EXCEPT ![s] = x], UNCHANGED tabs
  PROVE  Kept /\ sessions' \in Seq(SessionType) /\ tabs' \in Seq(TabType(Len(sessions)))
BY ReplaceInSeq DEF Types, NetOK, LayoutOK, Kept, SameRoute

(* A key is a command for one session.                                     *)
LEMMA TypeKeeps ==
  ASSUME Types, Type
  PROVE  Kept /\ sessions' \in Seq(SessionType) /\ LayoutOK' /\ ActiveIsOpen' /\ done' \in BOOLEAN
<1>1. tabs[active].session \in 1 .. Len(sessions)
  BY TabInType DEF Types, LayoutOK
<1>2. Kept /\ sessions' \in Seq(SessionType) /\ tabs' \in Seq(TabType(Len(sessions)))
  BY <1>1, CommandsKeep, OneSessionKept DEF Type
<1>3. /\ active \in 1 .. Len(tabs) /\ LoopTop(active) /\ split' = split
      /\ closed' \in [1 .. Len(tabs) -> BOOLEAN]
  BY DEF Type, Types, LayoutOK
<1>4. \/ split' = NoSplit
      \/ /\ split' \in [l : 1 .. Len(tabs), r : 1 .. Len(tabs), focus : {"left", "right"}]
         /\ split'.l # split'.r
  BY <1>3 DEF Types, LayoutOK
<1> QED
  BY <1>2, <1>3, <1>4, LoopArm

(* The active tab is closed, and another is found or the loop returns.     *)
LEMMA CloseTabKeeps ==
  ASSUME Types, CloseTab
  PROVE  Kept /\ sessions' \in Seq(SessionType) /\ LayoutOK' /\ ActiveIsOpen' /\ done' \in BOOLEAN
<1> DEFINE own == tabs[active].session
           other == IF split.l = active THEN split.r ELSE split.l
           otherSession == tabs[other].session
           inSplit == split # NoSplit /\ active \in {split.l, split.r}
<1>1. /\ active \in 1 .. Len(tabs) /\ closed \in [1 .. Len(tabs) -> BOOLEAN] /\ Len(tabs) \in Nat
      /\ tabs \in Seq(TabType(Len(sessions)))
      /\ sessions \in Seq(SessionType)
  BY LenProperties DEF Types, NetOK, LayoutOK
<1>2. closed' \in [1 .. Len(tabs) -> BOOLEAN] /\ LoopTop(active)
  BY <1>1 DEF CloseTab
<1>3. own \in 1 .. Len(sessions) /\ CloseCommand(own) \in SessionType /\ SameRoute(CloseCommand(own), sessions[own])
  BY <1>1, TabInType, CommandsKeep
<1>4. CASE /\ ~inSplit
           /\ sessions' = [sessions EXCEPT ![own] = CloseCommand(own)]
           /\ UNCHANGED <<tabs, split>>
  <2>1. Kept /\ sessions' \in Seq(SessionType) /\ tabs' \in Seq(TabType(Len(sessions)))
    <3> HIDE DEF own
    <3> QED
      BY <1>3, <1>4, OneSessionKept
  <2>2. \/ split' = NoSplit
        \/ /\ split' \in [l : 1 .. Len(tabs), r : 1 .. Len(tabs), focus : {"left", "right"}]
           /\ split'.l # split'.r
    BY <1>4 DEF Types, LayoutOK
  <2> QED
    BY <1>1, <1>2, <2>1, <2>2, LoopArm
<1>5. CASE /\ inSplit
           /\ tabs' = [tabs EXCEPT ![other].cols = term]
           /\ sessions' = [sessions EXCEPT ![own] = CloseCommand(own),
                                           ![otherSession] = ResizeCommand(otherSession, term)]
           /\ split' = NoSplit
  <2>1. other \in 1 .. Len(tabs) /\ term \in Nat
    BY <1>5, WidthAssumption DEF Types, LayoutOK, ScreenOK
  <2>2. tabs[other] \in TabType(Len(sessions)) /\ otherSession \in 1 .. Len(sessions)
    BY <2>1, TabInType
  <2>3. /\ ResizeCommand(otherSession, term) \in SessionType
        /\ SameRoute(ResizeCommand(otherSession, term), sessions[otherSession])
    BY <2>1, <2>2, CommandsKeep
  <2> DEFINE t == [tabs[other] EXCEPT !.cols = term]
  <2>4. t \in TabType(Len(sessions)) /\ t.session = tabs[other].session
    BY <2>1, <2>2 DEF TabType
  <2>5. /\ tabs' \in Seq(TabType(Len(sessions))) /\ Len(tabs') = Len(tabs)
        /\ \A i \in 1 .. Len(tabs) : tabs'[i].session = tabs[i].session
    <3>1. tabs' = [tabs EXCEPT ![other] = t]
      BY <1>5
    <3> HIDE DEF other, t
    <3> QED
      BY <1>1, <2>1, <2>4, <3>1, ReplaceInSeq
  <2>6. /\ sessions' \in Seq(SessionType) /\ Len(sessions') = Len(sessions)
        /\ \A s \in 1 .. Len(sessions) : SameRoute(sessions'[s], sessions[s])
    <3> DEFINE one == [sessions EXCEPT ![own] = CloseCommand(own)]
               r == ResizeCommand(otherSession, term)
    <3>1. sessions' = [one EXCEPT ![otherSession] = r]
      BY <1>5
    <3> HIDE DEF own, otherSession, r
    <3>2. /\ one \in Seq(SessionType) /\ Len(one) = Len(sessions)
          /\ one[own] = CloseCommand(own)
          /\ \A s \in 1 .. Len(sessions) : s # own => one[s] = sessions[s]
      BY <1>1, <1>3, ReplaceInSeq
    <3>3. r \in SessionType /\ SameRoute(r, sessions[otherSession])
      BY <2>3 DEF r
    <3> HIDE DEF one
    <3>4. /\ sessions' \in Seq(SessionType) /\ Len(sessions') = Len(sessions)
          /\ sessions'[otherSession] = r
          /\ \A s \in 1 .. Len(sessions) : s # otherSession => sessions'[s] = one[s]
      BY <2>2, <3>1, <3>2, <3>3, ReplaceInSeq
    <3>5. \A s \in 1 .. Len(sessions) : SameRoute(sessions[s], sessions[s])
      BY DEF SameRoute
    <3> QED
      BY <1>3, <3>2, <3>3, <3>4, <3>5
  <2>7. Kept
    BY <2>5, <2>6 DEF Kept
  <2> QED
    BY <1>1, <1>2, <1>5, <2>5, <2>6, <2>7, LoopArm
<1> QED
  BY <1>4, <1>5 DEF CloseTab

(* Any key that acts on the tabs.                                          *)
LEMMA TabKeyKeeps ==
  ASSUME Types, TabKey, UNCHANGED screen
  PROVE  Types' /\ Kept /\ ActiveIsOpen' /\ UNCHANGED <<events, results, line>>
<1>1. Kept /\ sessions' \in Seq(SessionType) /\ LayoutOK' /\ ActiveIsOpen' /\ done' \in BOOLEAN
  BY SwitchTabKeeps, CloseTabKeeps, ToggleSplitKeeps, ToggleFocusKeeps, TypeKeeps, JumpToKeeps
     DEF TabKey
<1>2. UNCHANGED <<events, results, line>>
  BY DEF TabKey
<1>3. NetOK'
  BY <1>1, <1>2 DEF Types, NetOK, Kept
<1>4. dirty' \in BOOLEAN
  BY DEF TabKey, SwitchTab, CloseTab, ToggleSplit, ToggleFocus, Type, JumpTo, Types, ScreenOK
<1>5. ScreenOK'
  BY <1>1, <1>2, <1>4 DEF Types, ScreenOK, line, screen
<1> QED
  BY <1>1, <1>2, <1>3, <1>5 DEF Types

(* HandleResize: every open tab is resized.                                *)
LEMMA HandleResizeKeeps ==
  ASSUME Types, HandleResize
  PROVE  Types' /\ Kept /\ ActiveIsOpen' /\ UNCHANGED <<events, results, line>>
<1> DEFINE w == SplitWidths(Head(resizes))
           W == {j \in DOMAIN tabs : ~closed[j]}
           Width(i) == IF i = split.l THEN w.l ELSE IF i = split.r THEN w.r ELSE Head(resizes)
           cols == [i \in W |-> Width(i)]
<1>1. resizes # << >> /\ resizes \in Seq(Widths)
  BY DEF HandleResize, Types, ScreenOK
<1>2. Head(resizes) \in Nat \ {0} /\ resizes' \in Seq(Widths)
  BY <1>1, HeadTailProperties, WidthAssumption DEF HandleResize
<1>3. w.l \in Nat /\ w.r \in Nat
  BY <1>2, PaneWidths
<1>4. W \in SUBSET (1 .. Len(tabs))
  BY LenProperties DEF Types, LayoutOK
<1>5. cols \in [W -> Nat]
  <2> HIDE DEF w, W
  <2> QED
    BY <1>2, <1>3
<1>6. ResizePanes(cols)
  BY DEF HandleResize
<1>7. Kept /\ sessions' \in Seq(SessionType) /\ tabs' \in Seq(TabType(Len(sessions)))
  <2> HIDE DEF cols, W
  <2> QED
    BY <1>4, <1>5, <1>6, ResizePanesKeeps
<1>8. /\ closed' \in [1 .. Len(tabs) -> BOOLEAN] /\ active \in 1 .. Len(tabs) /\ LoopTop(active)
      /\ UNCHANGED <<events, results, line, term, split>> /\ dirty' \in BOOLEAN
  BY DEF HandleResize, Types, LayoutOK
<1>9. \/ split' = NoSplit
      \/ /\ split' \in [l : 1 .. Len(tabs), r : 1 .. Len(tabs), focus : {"left", "right"}]
         /\ split'.l # split'.r
  BY <1>8 DEF Types, LayoutOK
<1>10. LayoutOK' /\ ActiveIsOpen' /\ done' \in BOOLEAN
  BY <1>7, <1>8, <1>9, LoopArm
<1>11. NetOK' /\ ScreenOK'
  BY <1>2, <1>7, <1>8, <1>10 DEF Types, NetOK, ScreenOK, Kept, line
<1> QED
  BY <1>7, <1>8, <1>10, <1>11 DEF Types

(* Keys that leave tabs and sessions alone.                                *)
LEMMA LineKeyKeeps ==
  ASSUME Types, UNCHANGED <<net, tabs, closed, split, screen>>, LoopTop(active),
         dialog' \in BOOLEAN, failed' \in BOOLEAN, connecting' \in BOOLEAN, dirty' \in BOOLEAN
  PROVE  Types' /\ Kept /\ ActiveIsOpen'
<1>1. Kept /\ sessions' \in Seq(SessionType) /\ tabs' \in Seq(TabType(Len(sessions)))
  BY DEF Kept, SameRoute, Types, NetOK, LayoutOK, net
<1>2. /\ closed' \in [1 .. Len(tabs) -> BOOLEAN] /\ active \in 1 .. Len(tabs)
      /\ \/ split' = NoSplit
         \/ /\ split' \in [l : 1 .. Len(tabs), r : 1 .. Len(tabs), focus : {"left", "right"}]
            /\ split'.l # split'.r
  BY DEF Types, LayoutOK
<1>3. LayoutOK' /\ ActiveIsOpen' /\ done' \in BOOLEAN
  BY <1>1, <1>2, LoopArm
<1>4. NetOK' /\ ScreenOK'
  BY <1>3 DEF Types, NetOK, ScreenOK, net, screen
<1> QED
  BY <1>1, <1>3, <1>4 DEF Types

(* What leaves the layout alone keeps an open tab in front.                *)
LEMMA StillKept ==
  ASSUME Types, UNCHANGED <<net, layout>>
  PROVE  NetOK' /\ LayoutOK' /\ Kept
BY DEF Types, NetOK, LayoutOK, Kept, SameRoute, net, layout

(* Quit, Render and WindowResized.                                         *)
LEMMA IdleStepsKeep ==
  ASSUME Types, ActiveIsOpen,
         (Quit /\ UNCHANGED screen) \/ Render \/ \E w \in Widths : WindowResized(w)
  PROVE  Types' /\ Kept /\ ActiveIsOpen' /\ UNCHANGED <<events, results, line>>
<1>1. UNCHANGED <<net, layout, line>>
  BY DEF Quit, Render, WindowResized
<1>2. NetOK' /\ LayoutOK' /\ Kept
  BY <1>1, StillKept
<1>3. ActiveIsOpen'
  BY <1>1 DEF ActiveIsOpen, layout, Quit, Render, WindowResized
<1>4. term' \in Widths /\ resizes' \in Seq(Widths) /\ dirty' \in BOOLEAN /\ done' \in BOOLEAN
  BY AppendInSeq DEF Types, ScreenOK, Quit, Render, WindowResized, screen
<1>5. ScreenOK'
  BY <1>1, <1>4 DEF Types, ScreenOK, line
<1> QED
  BY <1>1, <1>2, <1>3, <1>5 DEF Types, net

(* HandleEvent: the event is fed to a tab, ends one, or is dropped.        *)
LEMMA HandleEventKeeps ==
  ASSUME Types, HandleEvent
  PROVE  /\ Types' /\ Kept /\ ActiveIsOpen' /\ UNCHANGED <<results, line>>
         /\ events # << >> /\ events' = Tail(events)
<1> DEFINE e == Head(events)
<1>1. events # << >> /\ events' = Tail(events) /\ UNCHANGED <<sessions, results, split, line, screen>>
  BY DEF HandleEvent
<1>2. e \in EventType(Len(sessions)) /\ events' \in Seq(EventType(Len(sessions)))
  BY <1>1, HeadTailProperties DEF Types, NetOK
<1>3. /\ tabs \in Seq(TabType(Len(sessions))) /\ Len(tabs) \in Nat
      /\ closed \in [1 .. Len(tabs) -> BOOLEAN] /\ active \in 1 .. Len(tabs) /\ dirty \in BOOLEAN
  BY LenProperties DEF Types, LayoutOK, ScreenOK
<1>4. LoopTop(active) /\ (\/ UNCHANGED <<tabs, closed, dirty>>
                          \/ (e.tag \in 1 .. Len(tabs) /\ (Fed(e) \/ TabEnds(e))))
  <2>1. ~Unwanted(e) => e.tag \in 1 .. Len(tabs)
    BY <1>2, <1>3 DEF Unwanted, EventType
  <2> QED
    BY <2>1 DEF HandleEvent
<1>5. /\ tabs' \in Seq(TabType(Len(sessions))) /\ Len(tabs') = Len(tabs)
      /\ \A i \in 1 .. Len(tabs) : tabs'[i].session = tabs[i].session
      /\ closed' \in [1 .. Len(tabs) -> BOOLEAN] /\ dirty' \in BOOLEAN
  <2>1. CASE UNCHANGED <<tabs, closed, dirty>>
    BY <1>3, <2>1
  <2>2. CASE e.tag \in 1 .. Len(tabs) /\ TabEnds(e)
    BY <1>3, <2>2 DEF TabEnds
  <2>3. CASE e.tag \in 1 .. Len(tabs) /\ Fed(e)
    <3> DEFINE piece == [session |-> e.session, n |-> e.n]
               t == [tabs[e.tag] EXCEPT !.fed = Append(@, piece)]
    <3>1. tabs[e.tag] \in TabType(Len(sessions))
      BY <2>3, TabInType
    <3>2. piece \in [session : 1 .. Len(sessions), n : 1 .. MaxData]
      BY <1>2, <2>3 DEF Fed, EventType
    <3>3. Append(tabs[e.tag].fed, piece) \in Seq([session : 1 .. Len(sessions), n : 1 .. MaxData])
      <4> HIDE DEF piece, e
      <4> QED
        BY <3>1, <3>2, AppendInSeq DEF TabType
    <3>4. t \in TabType(Len(sessions)) /\ t.session = tabs[e.tag].session
      <4> HIDE DEF piece, e
      <4> QED
        BY <3>1, <3>3 DEF TabType, t
    <3>5. tabs' = [tabs EXCEPT ![e.tag] = t] /\ closed' = closed /\ dirty' \in BOOLEAN
      BY <1>3, <2>3 DEF Fed
    <3> HIDE DEF t, e
    <3> QED
      BY <1>3, <2>3, <3>4, <3>5, ReplaceInSeq
  <2> QED
    BY <1>4, <2>1, <2>2, <2>3
<1>6. Kept
  BY <1>1, <1>5 DEF Kept, SameRoute
<1>7. \/ split' = NoSplit
      \/ /\ split' \in [l : 1 .. Len(tabs), r : 1 .. Len(tabs), focus : {"left", "right"}]
         /\ split'.l # split'.r
  BY <1>1 DEF Types, LayoutOK
<1>8. sessions' \in Seq(SessionType)
  BY <1>1 DEF Types, NetOK
<1>9. LayoutOK' /\ ActiveIsOpen' /\ done' \in BOOLEAN
  BY <1>3, <1>4, <1>5, <1>6, <1>7, <1>8, LoopArm
<1>10. NetOK' /\ ScreenOK'
  BY <1>1, <1>2, <1>5, <1>8, <1>9 DEF Types, NetOK, ScreenOK, line, screen
<1> QED
  BY <1>1, <1>6, <1>9, <1>10 DEF Types

-----------------------------------------------------------------------------
(* The steps that change a route.                                          *)

(* What a task does to its session; x is the session after the step.       *)
LEMMA TaskChanges ==
  ASSUME Types, NEW s \in 1 .. Len(sessions), Task(s)
  PROVE  /\ sessions' \in Seq(SessionType) /\ Len(sessions') = Len(sessions)
         /\ \A u \in 1 .. Len(sessions) : u # s => sessions'[u] = sessions[u]
         /\ sessions'[s].tag = sessions[s].tag
<1> DEFINE x == sessions'[s]
<1>1. sessions \in Seq(SessionType) /\ sessions[s] \in SessionType
  BY ElementOfSeq DEF Types, NetOK
<1>2. << >> \in Seq(Commands)
  OBVIOUS
<1>3. \E y \in SessionType : sessions' = [sessions EXCEPT ![s] = y] /\ y.tag = sessions[s].tag
  <2>1. CASE Connect(s)
    <3>1. [sessions[s] EXCEPT !.phase = "running"] \in SessionType
      BY <1>1 DEF SessionType
    <3>2. sessions' = [sessions EXCEPT ![s] = [sessions[s] EXCEPT !.phase = "running"]]
      BY <2>1 DEF Connect
    <3> QED
      BY <1>1, <3>1, <3>2 DEF SessionType
  <2>2. CASE Report(s)
    <3>1. [sessions[s] EXCEPT !.told = TRUE] \in SessionType
      BY <1>1 DEF SessionType
    <3>2. sessions' = [sessions EXCEPT ![s] = [sessions[s] EXCEPT !.told = TRUE]]
      BY <2>2 DEF Report
    <3> QED
      BY <1>1, <3>1, <3>2 DEF SessionType
  <2>3. CASE ConnectFails(s)
    <3>1. [sessions[s] EXCEPT !.phase = "over", !.told = TRUE] \in SessionType
      BY <1>1 DEF SessionType
    <3>2. sessions' = [sessions EXCEPT ![s] = [sessions[s] EXCEPT !.phase = "over", !.told = TRUE]]
      BY <1>1, <2>3 DEF ConnectFails
    <3> QED
      BY <1>1, <3>1, <3>2 DEF SessionType
  <2>4. CASE Data(s)
    <3>1. sessions[s].sent + 1 \in 0 .. MaxData
      BY <2>4, SessionInType, BoundAssumption DEF Data
    <3>2. [sessions[s] EXCEPT !.sent = sessions[s].sent + 1] \in SessionType
      BY <1>1, <3>1 DEF SessionType
    <3>3. sessions' = [sessions EXCEPT ![s] = [sessions[s] EXCEPT !.sent = sessions[s].sent + 1]]
      BY <2>4 DEF Data
    <3> QED
      BY <1>1, <3>2, <3>3 DEF SessionType
  <2>5. CASE Break(s)
    <3>1. [sessions[s] EXCEPT !.phase = "broken"] \in SessionType
      BY <1>1 DEF SessionType
    <3>2. sessions' = [sessions EXCEPT ![s] = [sessions[s] EXCEPT !.phase = "broken"]]
      BY <2>5 DEF Break
    <3> QED
      BY <1>1, <3>1, <3>2 DEF SessionType
  <2>6. sessions' = Over(s) =>
          \E y \in SessionType : sessions' = [sessions EXCEPT ![s] = y] /\ y.tag = sessions[s].tag
    <3>1. [sessions[s] EXCEPT !.phase = "over", !.commands = << >>] \in SessionType
      BY <1>1, <1>2 DEF SessionType
    <3>2. Over(s) = [sessions EXCEPT ![s] = [sessions[s] EXCEPT !.phase = "over", !.commands = << >>]]
      BY <1>1 DEF Over
    <3> QED
      BY <1>1, <3>1, <3>2 DEF SessionType
  <2>7. CASE Ends(s)
    BY <2>6, <2>7 DEF Ends
  <2>8. CASE Command(s)
    <3> DEFINE c == Head(sessions[s].commands)
               up == sessions[s].phase = "running"
               pty == IF c.kind = "resize" /\ up THEN c.cols ELSE sessions[s].pty
    <3>1. sessions[s].commands # << >> /\ sessions[s].commands \in Seq(Commands)
      BY <1>1, <2>8 DEF Command, SessionType
    <3>2. c \in Commands /\ Tail(sessions[s].commands) \in Seq(Commands)
      BY <3>1, HeadTailProperties
    <3>3. pty \in Nat
      BY <1>1, <3>2 DEF Commands, SessionType
    <3>4. [sessions[s] EXCEPT !.commands = Tail(sessions[s].commands), !.pty = pty] \in SessionType
      <4> HIDE DEF pty
      <4> QED
        BY <1>1, <3>2, <3>3 DEF SessionType
    <3>5. \/ sessions' = Over(s)
          \/ sessions' = [sessions EXCEPT
               ![s] = [sessions[s] EXCEPT !.commands = Tail(sessions[s].commands), !.pty = pty]]
      BY <1>1, <2>8 DEF Command
    <3> HIDE DEF pty
    <3> QED
      BY <1>1, <2>6, <3>4, <3>5 DEF SessionType
  <2> QED
    BY <2>1, <2>2, <2>3, <2>4, <2>5, <2>7, <2>8 DEF Task
<1> QED
  BY <1>1, <1>3, ReplaceInSeq

(* What a task sends.                                                      *)
LEMMA TaskSends ==
  ASSUME Types, NEW s \in 1 .. Len(sessions), Task(s)
  PROVE  /\ \/ events' = events
            \/ Alive(s) /\ \E n \in 0 .. MaxData : events' = Append(events, Event(s, "closed", n))
            \/ Alive(s) /\ \E n \in 1 .. MaxData : events' = Append(events, Event(s, "data", n))
         /\ results' \in {results, Append(results, s), Append(results, 0)}
<1>2. 0 \in 0 .. MaxData
  BY BoundAssumption
<1>3. CASE Data(s)
  <2>1. sessions[s].sent + 1 \in 1 .. MaxData
    BY <1>3, SessionInType, BoundAssumption DEF Data
  <2> QED
    BY <1>3, <2>1 DEF Data, Alive
<1>4. CASE Connect(s) \/ Report(s) \/ ConnectFails(s) \/ Break(s) \/ Ends(s)
  BY <1>2, <1>4 DEF Connect, Report, ConnectFails, Break, Ends
<1>5. CASE Command(s)
  BY <1>2, <1>5 DEF Command, Farewell
<1> QED
  BY <1>3, <1>4, <1>5 DEF Task

(* A step of a task.                                                       *)
LEMMA TaskKeepsTypes ==
  ASSUME Types, ActiveIsOpen, NEW s \in 1 .. Len(sessions), Task(s)
  PROVE  Types' /\ ActiveIsOpen'
<1>1. sessions' \in Seq(SessionType) /\ Len(sessions') = Len(sessions)
  BY TaskChanges
<1>2. UNCHANGED <<layout, line, dirty, screen, done>>
  BY DEF Task
<1>3. sessions[s].tag \in Nat \ {0} /\ Len(sessions) \in Nat
  BY SessionInType, LenProperties DEF Types, NetOK
<1>4. events' \in Seq(EventType(Len(sessions)))
  <2>1. /\ \A n \in 0 .. MaxData : Event(s, "closed", n) \in EventType(Len(sessions))
        /\ \A n \in 1 .. MaxData : Event(s, "data", n) \in EventType(Len(sessions))
    BY <1>3 DEF Event, EventType
  <2> QED
    BY <2>1, TaskSends, AppendInSeq DEF Types, NetOK
<1>5. results' \in Seq(0 .. Len(sessions))
  <2>1. 0 \in 0 .. Len(sessions) /\ s \in 0 .. Len(sessions)
    BY <1>3
  <2> QED
    BY <2>1, TaskSends, AppendInSeq, ZenonT(60) DEF Types, NetOK
<1> QED
  BY <1>1, <1>2, <1>4, <1>5
     DEF Types, NetOK, LayoutOK, ScreenOK, layout, line, screen, ActiveIsOpen

(* More sessions take no type away.                                        *)
LEMMA MoreSessions ==
  ASSUME NEW n \in Nat
  PROVE  /\ \A q \in Seq(TabType(n)) : q \in Seq(TabType(n + 1))
         /\ \A q \in Seq(EventType(n)) : q \in Seq(EventType(n + 1))
         /\ \A q \in Seq(0 .. n) : q \in Seq(0 .. n + 1)
<1>1. 1 .. n \subseteq 1 .. n + 1 /\ 0 .. n \subseteq 0 .. n + 1
  OBVIOUS
<1>2. [session : 1 .. n, n : 1 .. MaxData] \subseteq [session : 1 .. n + 1, n : 1 .. MaxData]
  BY <1>1
<1>3. \A q \in Seq([session : 1 .. n, n : 1 .. MaxData]) : q \in Seq([session : 1 .. n + 1, n : 1 .. MaxData])
  BY <1>2, SeqMonotonic
<1>4. TabType(n) \subseteq TabType(n + 1)
  BY <1>1, <1>3 DEF TabType
<1>5. EventType(n) \subseteq EventType(n + 1)
  BY <1>1 DEF EventType
<1> QED
  BY <1>1, <1>4, <1>5, SeqMonotonic

(* Enter with a target: a session that connects.                           *)
StartAttempt ==
  /\ dialog /\ ~dialog' /\ connecting'
  /\ sessions' = Append(sessions, NewSession(Len(tabs) + 1, term))
  /\ UNCHANGED <<events, results, tabs, closed, split, screen>>
  /\ LoopTop(active)

(* An attempt is a session more.                                           *)
LEMMA StartAttemptKeepsTypes ==
  ASSUME Types, StartAttempt, failed' \in BOOLEAN, dirty' \in BOOLEAN,
         dialog' \in BOOLEAN, connecting' \in BOOLEAN
  PROVE  Types' /\ ActiveIsOpen'
<1> DEFINE n == Len(sessions)
           x == NewSession(Len(tabs) + 1, term)
<1>1. /\ sessions \in Seq(SessionType) /\ events \in Seq(EventType(n)) /\ results \in Seq(0 .. n)
      /\ tabs \in Seq(TabType(n)) /\ n \in Nat /\ Len(tabs) \in Nat
      /\ closed \in [1 .. Len(tabs) -> BOOLEAN] /\ active \in 1 .. Len(tabs)
  BY LenProperties DEF Types, NetOK, LayoutOK
<1>2. x \in SessionType
  <2>1. << >> \in Seq(Commands) /\ term \in Nat /\ 0 \in 0 .. MaxData
    BY WidthAssumption, BoundAssumption DEF Types, ScreenOK
  <2> QED
    BY <1>1, <2>1 DEF NewSession, SessionType
<1>3. sessions' \in Seq(SessionType) /\ Len(sessions') = n + 1
  <2> HIDE DEF x
  <2>1. Append(sessions, x) \in Seq(SessionType) /\ Len(Append(sessions, x)) = Len(sessions) + 1
    BY <1>1, <1>2, AppendProperties
  <2> QED
    BY <2>1 DEF StartAttempt, x
<1> HIDE DEF n
<1>4. NetOK' /\ tabs' \in Seq(TabType(Len(sessions')))
  BY <1>1, <1>3, MoreSessions DEF NetOK, StartAttempt
<1>5. active' \in 1 .. Len(tabs) /\ done' \in BOOLEAN /\ ActiveIsOpen'
  <2>1. Len(tabs) \in Nat \ {0} /\ closed' \in [1 .. Len(tabs) -> BOOLEAN] /\ LoopTop(active)
    BY <1>1 DEF StartAttempt
  <2> QED
    BY <1>1, <2>1, LoopTopMoves DEF ActiveIsOpen
<1>6. UNCHANGED <<tabs, closed, split, screen>>
  BY DEF StartAttempt
<1>7. LayoutOK'
  BY <1>4, <1>5, <1>6 DEF Types, LayoutOK
<1>8. ScreenOK'
  BY <1>5, <1>6 DEF Types, ScreenOK, screen
<1> QED
  BY <1>4, <1>5, <1>7, <1>8 DEF Types

(* A dialog key either starts an attempt or leaves the sessions alone.     *)
LEMMA DialogKey ==
  ASSUME Types, DialogEnter \/ DialogEscape \/ DialogEdit \/ OpenDialog, UNCHANGED screen
  PROVE  /\ Types' /\ ActiveIsOpen'
         /\ \/ StartAttempt
            \/ Kept /\ UNCHANGED <<events, results, connecting>> /\ (dialog' => dialog \/ ~connecting)
<1>1. /\ dialog' \in BOOLEAN /\ failed' \in BOOLEAN /\ connecting' \in BOOLEAN /\ dirty' \in BOOLEAN
  BY DEF Types, ScreenOK, DialogEnter, DialogEscape, DialogEdit, OpenDialog, line
<1>2. /\ LoopTop(active)
      /\ \/ StartAttempt
         \/ UNCHANGED <<net, tabs, closed, split, screen, connecting>> /\ (dialog' => dialog \/ ~connecting)
  BY DEF DialogEnter, DialogEscape, DialogEdit, OpenDialog, StartAttempt, net, line
<1>3. CASE StartAttempt
  BY <1>1, <1>3, StartAttemptKeepsTypes
<1>4. CASE /\ UNCHANGED <<net, tabs, closed, split, screen, connecting>>
           /\ dialog' => dialog \/ ~connecting
  <2>1. Types' /\ Kept /\ ActiveIsOpen'
    BY <1>1, <1>2, <1>4, LineKeyKeeps
  <2> QED
    BY <1>4, <2>1 DEF net
<1> QED
  BY <1>2, <1>3, <1>4

(* A new tab behind the others.                                            *)
LEMMA HandleResultKeepsTypes ==
  ASSUME Types, HandleResult
  PROVE  Types' /\ ActiveIsOpen'
<1> DEFINE s == Head(results)
           n == Len(tabs)
<1>1. /\ results # << >> /\ results' = Tail(results) /\ connecting' = FALSE /\ dirty' = TRUE
      /\ UNCHANGED <<sessions, events, split, dialog, screen>>
  BY DEF HandleResult
<1>2. s \in 0 .. Len(sessions) /\ results' \in Seq(0 .. Len(sessions))
  BY <1>1, HeadTailProperties DEF Types, NetOK
<1>3. /\ tabs \in Seq(TabType(Len(sessions))) /\ n \in Nat
      /\ closed \in [1 .. n -> BOOLEAN] /\ active \in 1 .. n
      /\ \/ split = NoSplit
         \/ /\ split \in [l : 1 .. n, r : 1 .. n, focus : {"left", "right"}]
            /\ split.l # split.r
  BY LenProperties DEF Types, LayoutOK
<1>4. \E m \in {n, n + 1} :
        /\ tabs' \in Seq(TabType(Len(sessions))) /\ Len(tabs') = m
        /\ closed' \in [1 .. m -> BOOLEAN]
        /\ failed' \in BOOLEAN
        /\ \E a \in 1 .. m : LoopTop(a)
  <2>1. CASE s = 0
    BY <1>3, <2>1 DEF HandleResult
  <2>2. CASE s # 0
    <3>1. s \in 1 .. Len(sessions)
      BY <1>2, <2>2 DEF Types, NetOK
    <3>2. sessions[s].pty \in Nat
      BY <3>1, SessionInType DEF SessionType
    <3>3. NewTab(s) \in TabType(Len(sessions))
      <4>1. << >> \in Seq([session : 1 .. Len(sessions), n : 1 .. MaxData])
        OBVIOUS
      <4> HIDE DEF s
      <4> QED
        BY <3>1, <3>2, <4>1 DEF NewTab, TabType
    <3>4. /\ tabs' = Append(tabs, NewTab(s)) /\ closed' = Append(closed, FALSE)
          /\ LoopTop(n + 1) /\ failed' = failed
      BY <2>2 DEF HandleResult
    <3>5. tabs' \in Seq(TabType(Len(sessions))) /\ Len(tabs') = n + 1
      <4> HIDE DEF s
      <4> QED
        BY <1>3, <3>3, <3>4, AppendProperties
    <3>6. closed' \in [1 .. n + 1 -> BOOLEAN]
      <4>1. closed \in Seq(BOOLEAN) /\ Len(closed) = n
        BY <1>3, FunctionIsSeq
      <4>2. Append(closed, FALSE) \in Seq(BOOLEAN) /\ Len(Append(closed, FALSE)) = n + 1
        BY <4>1, AppendProperties
      <4> QED
        BY <3>4, <4>2, LenProperties
    <3>7. failed' \in BOOLEAN
      BY <3>4 DEF Types, ScreenOK
    <3>8. n + 1 \in 1 .. n + 1 /\ n + 1 \in {n, n + 1}
      BY <1>3
    <3>9. \E a \in 1 .. n + 1 : LoopTop(a)
      BY <3>4, <3>8
    <3> HIDE DEF n, s
    <3> QED
      BY <3>5, <3>6, <3>7, <3>8, <3>9
  <2> QED
    BY <2>1, <2>2
<1>5. PICK m \in {n, n + 1} :
        /\ tabs' \in Seq(TabType(Len(sessions))) /\ Len(tabs') = m
        /\ closed' \in [1 .. m -> BOOLEAN]
        /\ failed' \in BOOLEAN
        /\ \E a \in 1 .. m : LoopTop(a)
  BY <1>4
<1>6. m \in Nat \ {0} /\ 1 .. n \subseteq 1 .. m
  BY <1>3, <1>5
<1>7. active' \in 1 .. m /\ done' \in BOOLEAN /\ ActiveIsOpen'
  BY <1>5, <1>6, LoopTopMoves DEF ActiveIsOpen
<1>8. \/ split' = NoSplit
      \/ /\ split' \in [l : 1 .. m, r : 1 .. m, focus : {"left", "right"}]
         /\ split'.l # split'.r
  BY <1>1, <1>3, <1>6
<1>9. LayoutOK'
  BY <1>1, <1>5, <1>7, <1>8 DEF LayoutOK
<1>10. NetOK' /\ ScreenOK'
  BY <1>1, <1>2, <1>5, <1>7 DEF Types, NetOK, ScreenOK, screen
<1> QED
  BY <1>7, <1>9, <1>10 DEF Types

-----------------------------------------------------------------------------
(* A session that is there when the loop starts.                           *)
LEMMA StartedSession ==
  ASSUME NEW s \in Nat \ {0}, NEW w \in Nat
  PROVE  LET x == [NewSession(s, w) EXCEPT !.phase = "running", !.told = TRUE]
         IN x \in SessionType /\ x.tag = s /\ x.phase = "running" /\ x.told
<1> DEFINE y == NewSession(s, w)
<1>1. y \in SessionType /\ y.tag = s
  <2>1. << >> \in Seq(Commands) /\ 0 \in 0 .. MaxData
    BY BoundAssumption
  <2> QED
    BY <2>1 DEF NewSession, SessionType
<1> HIDE DEF y
<1>2. LET x == [y EXCEPT !.phase = "running", !.told = TRUE]
      IN x \in SessionType /\ x.tag = s /\ x.phase = "running" /\ x.told = TRUE
  BY <1>1 DEF SessionType
<1> QED
  BY <1>2 DEF y

(* The types, and an open tab in front, hold at the start and are kept.    *)
LEMMA InitTypes == Init => Types /\ ActiveIsOpen /\ Len(sessions) = StartTabs /\ Len(tabs) = StartTabs
<1> SUFFICES ASSUME Init PROVE Types /\ ActiveIsOpen /\ Len(sessions) = StartTabs /\ Len(tabs) = StartTabs
  OBVIOUS
<1>1. StartTabs \in Nat \ {0} /\ StartWidth \in Nat \ {0} /\ StartWidth \in Widths /\ 0 \in 0 .. MaxData
  BY StartAssumption, WidthAssumption, BoundAssumption
<1> DEFINE x(s) == [NewSession(s, StartWidth) EXCEPT !.phase = "running", !.told = TRUE]
           t(i) == [session |-> i, cols |-> StartWidth, fed |-> << >>]
<1>3. /\ sessions = [s \in 1 .. StartTabs |-> x(s)]
      /\ tabs = [i \in 1 .. StartTabs |-> t(i)]
  BY DEF Init
<1>4. /\ events = << >> /\ results = << >>
      /\ closed = [i \in 1 .. StartTabs |-> FALSE] /\ active = 1 /\ split = NoSplit
      /\ dialog = FALSE /\ failed = FALSE /\ connecting = FALSE /\ dirty = TRUE
      /\ term = StartWidth /\ resizes = << >> /\ done = FALSE
  BY DEF Init
<1>5. \A s \in 1 .. StartTabs : x(s) \in SessionType
  <2> TAKE s \in 1 .. StartTabs
  <2>1. s \in Nat \ {0} /\ StartWidth \in Nat
    BY <1>1
  <2> QED
    BY <2>1, StartedSession, Zenon
<1>6. \A i \in 1 .. StartTabs : t(i) \in TabType(StartTabs)
  <2>1. << >> \in Seq([session : 1 .. StartTabs, n : 1 .. MaxData])
    OBVIOUS
  <2> QED
    BY <1>1, <2>1 DEF TabType
<1> HIDE DEF x, t
<1>7. sessions \in Seq(SessionType) /\ Len(sessions) = StartTabs
  <2>1. sessions \in [1 .. StartTabs -> SessionType]
    BY <1>3, <1>5
  <2> QED
    BY <1>1, <2>1, FunctionIsSeq
<1>8. tabs \in Seq(TabType(StartTabs)) /\ Len(tabs) = StartTabs
  <2>1. tabs \in [1 .. StartTabs -> TabType(StartTabs)]
    BY <1>3, <1>6
  <2> QED
    BY <1>1, <2>1, FunctionIsSeq
<1>9. NetOK
  BY <1>4, <1>7 DEF NetOK
<1>10. LayoutOK /\ ActiveIsOpen
  BY <1>1, <1>4, <1>7, <1>8 DEF LayoutOK, ActiveIsOpen
<1>11. ScreenOK
  <2>1. resizes \in Seq(Widths)
    BY <1>4
  <2> QED
    BY <1>1, <1>4, <2>1, Zenon DEF ScreenOK
<1> QED
  BY <1>7, <1>8, <1>9, <1>10, <1>11 DEF Types

(* Every step of the loop is one of these.                                 *)
LEMMA Steps ==
  ASSUME [Next]_vars, Types, ActiveIsOpen
  PROVE  \/ \E s \in 1 .. Len(sessions) : Task(s)
         \/ HandleEvent
         \/ HandleResult
         \/ (DialogEnter \/ DialogEscape \/ DialogEdit \/ OpenDialog) /\ UNCHANGED screen
         \/ Types' /\ Kept /\ ActiveIsOpen' /\ UNCHANGED <<events, results, line>>
<1>1. CASE UNCHANGED vars
  <2>1. UNCHANGED <<net, layout, line, screen, dirty, done, events, results>>
    BY <1>1 DEF vars, net
  <2>2. NetOK' /\ LayoutOK' /\ Kept
    BY <2>1, StillKept
  <2>3. ScreenOK' /\ ActiveIsOpen'
    BY <2>1 DEF Types, ScreenOK, ActiveIsOpen, line, screen, layout
  <2> QED
    BY <2>1, <2>2, <2>3 DEF Types
<1>2. CASE \E s \in DOMAIN sessions : Task(s)
  BY <1>2, LenProperties DEF Types, NetOK
<1>3. CASE Loop
  <2>1. CASE TabKey /\ UNCHANGED screen
    BY <2>1, TabKeyKeeps
  <2>2. CASE HandleResize
    BY <2>2, HandleResizeKeeps
  <2>3. CASE (Quit /\ UNCHANGED screen) \/ Render
    BY <2>3, IdleStepsKeep
  <2> QED
    BY <1>3, <2>1, <2>2, <2>3 DEF Loop, Key
<1>4. CASE \E w \in Widths : WindowResized(w)
  BY <1>4, IdleStepsKeep
<1> QED
  BY <1>1, <1>2, <1>3, <1>4 DEF Next

(* Every arm and every task keeps the types and an open tab in front.      *)
LEMMA StepTypes == Types /\ ActiveIsOpen /\ [Next]_vars => Types' /\ ActiveIsOpen'
<1> SUFFICES ASSUME Types, ActiveIsOpen, [Next]_vars PROVE Types' /\ ActiveIsOpen'
  OBVIOUS
<1> QED
  BY Steps, TaskKeepsTypes, HandleEventKeeps, HandleResultKeepsTypes, DialogKey

(* The variables of the main loop and its tasks have their types, and the  *)
(* panes of a split are two different tabs.                                *)
THEOREM TypeCorrect == Spec => []TypeOK
<1>1. Init => Types /\ ActiveIsOpen
  BY InitTypes
<1>2. Types /\ ActiveIsOpen /\ [Next]_vars => Types' /\ ActiveIsOpen'
  BY StepTypes
<1>3. Types /\ ActiveIsOpen => TypeOK
  BY TypesAreTypeOK
<1> QED
  BY <1>1, <1>2, <1>3, PTL DEF Spec

(* However tabs are closed, by the user or by their session's end, and     *)
(* whatever is handled before or after, the loop never waits with a closed *)
(* tab in front while another is open.                                     *)
THEOREM FrontTabIsOpen == Spec => []ActiveIsOpen
<1>1. Init => Types /\ ActiveIsOpen
  BY InitTypes
<1>2. Types /\ ActiveIsOpen /\ [Next]_vars => Types' /\ ActiveIsOpen'
  BY StepTypes
<1> QED
  BY <1>1, <1>2, PTL DEF Spec

-----------------------------------------------------------------------------
(* The routing of events.  A task keeps the index it was given, the number *)
(* of tabs when the attempt started; so what matters is which sessions     *)
(* still speak, and that one whose tab is not there yet is the attempt the *)
(* loop waits for, and the next tab will be its own.                       *)

(* A session from which events come, or are queued.                        *)
Speaks(s) == Alive(s) \/ \E k \in 1 .. Len(events) : events[k].session = s

EventsTagged == \A k \in 1 .. Len(events) : events[k].tag = sessions[events[k].session].tag

AttemptPending(s) ==
  /\ s = Len(sessions) /\ connecting
  /\ sessions[s].tag = Len(tabs) + 1

SpeakersPlaced ==
  \A s \in 1 .. Len(sessions) : Speaks(s) =>
    /\ sessions[s].phase # "connecting"
    /\ \/ sessions[s].tag <= Len(tabs) /\ tabs[sessions[s].tag].session = s
       \/ AttemptPending(s) /\ (~sessions[s].told \/ (Len(results) = 1 /\ results[1] = s))

UntoldPending ==
  \A s \in 1 .. Len(sessions) : ~sessions[s].told => AttemptPending(s) /\ Len(results) = 0

ConnectingUntold ==
  \A s \in 1 .. Len(sessions) : sessions[s].phase = "connecting" => ~sessions[s].told

ResultPending ==
  Len(results) # 0 =>
    /\ connecting /\ Len(results) = 1
    /\ results[1] # 0 => AttemptPending(results[1])

DialogAlone == dialog => ~connecting

Routing ==
  /\ EventsTagged /\ SpeakersPlaced /\ UntoldPending /\ ConnectingUntold
  /\ ResultPending /\ DialogAlone

(* The fields of an event.                                                 *)
LEMMA EventInType ==
  ASSUME Types, NEW k \in 1 .. Len(events)
  PROVE  events[k].session \in 1 .. Len(sessions) /\ events[k].tag \in Nat \ {0}
<1>1. events[k] \in EventType(Len(sessions))
  BY ElementOfSeq DEF Types, NetOK
<1> QED
  BY <1>1 DEF EventType

(* Routing says of queued events what the property asks.                   *)
LEMMA RoutingIsEnough == Types /\ Routing => EventsReachTheirTab
<1> SUFFICES ASSUME Types, Routing, NEW k \in DOMAIN events, events[k].tag <= Len(tabs)
             PROVE  tabs[events[k].tag].session = events[k].session
  BY DEF EventsReachTheirTab
<1>1. k \in 1 .. Len(events) /\ Len(tabs) \in Nat
  BY LenProperties DEF Types, NetOK, LayoutOK
<1> DEFINE s == events[k].session
<1>2. s \in 1 .. Len(sessions) /\ Speaks(s) /\ events[k].tag = sessions[s].tag
  BY <1>1, EventInType DEF Speaks, Routing, EventsTagged
<1>3. ~AttemptPending(s)
  BY <1>1, <1>2 DEF AttemptPending
<1> QED
  BY <1>2, <1>3 DEF Routing, SpeakersPlaced

(* The tabs there are at the start have their own index.                   *)
LEMMA InitRouting == Init => Routing
<1> SUFFICES ASSUME Init PROVE Routing
  OBVIOUS
<1>1. Types
  BY InitTypes
<1>2. /\ Len(events) = 0 /\ Len(results) = 0
      /\ dialog = FALSE /\ connecting = FALSE
  BY DEF Init
<1>3. StartTabs \in Nat /\ StartWidth \in Nat
  BY StartAssumption, WidthAssumption
<1>4. Len(sessions) = StartTabs /\ Len(tabs) = StartTabs
  BY InitTypes
<1>5. \A s \in 1 .. StartTabs :
        /\ sessions[s].tag = s /\ sessions[s].phase = "running" /\ sessions[s].told
        /\ tabs[s].session = s
  <2> TAKE s \in 1 .. StartTabs
  <2>1. s \in Nat \ {0}
    BY <1>3
  <2> DEFINE x == [NewSession(s, StartWidth) EXCEPT !.phase = "running", !.told = TRUE]
  <2>2. x.tag = s /\ x.phase = "running" /\ x.told
    BY <1>3, <2>1, StartedSession, Zenon
  <2>3. sessions[s] = x
    BY DEF Init
  <2>4. tabs[s].session = s
    BY DEF Init
  <2> HIDE DEF x
  <2> QED
    BY <2>2, <2>3, <2>4
<1>6. EventsTagged /\ ResultPending /\ DialogAlone
  BY <1>2 DEF EventsTagged, ResultPending, DialogAlone
<1>7. UntoldPending /\ ConnectingUntold
  BY <1>4, <1>5 DEF UntoldPending, ConnectingUntold
<1>8. SpeakersPlaced
  BY <1>4, <1>5 DEF SpeakersPlaced
<1> QED
  BY <1>6, <1>7, <1>8 DEF Routing

(* A step in which no session starts to speak, no route changes, and the   *)
(* attempt and the tabs stay as they are.                                  *)
LEMMA QuietStep ==
  ASSUME Types, Types', Routing,
         Len(sessions') = Len(sessions),
         \A s \in 1 .. Len(sessions) :
           /\ sessions'[s].tag = sessions[s].tag
           /\ sessions'[s].told = sessions[s].told
           /\ sessions'[s].phase = "connecting" <=> sessions[s].phase = "connecting"
           /\ sessions'[s].phase \in {"running", "broken"} => sessions[s].phase \in {"running", "broken"},
         \A k \in 1 .. Len(events') : \E s \in 1 .. Len(sessions) :
           events'[k].session = s /\ Speaks(s) /\ events'[k].tag = sessions[s].tag,
         Len(tabs') = Len(tabs),
         \A i \in 1 .. Len(tabs) : tabs'[i].session = tabs[i].session,
         UNCHANGED <<results, connecting>>, dialog' => ~connecting
  PROVE  Routing'
<1>1. \A s \in 1 .. Len(sessions) : Speaks(s)' => Speaks(s)
  <2> SUFFICES ASSUME NEW s \in 1 .. Len(sessions), Speaks(s)' PROVE Speaks(s)
    OBVIOUS
  <2>1. CASE Alive(s)'
    BY <2>1 DEF Speaks, Alive
  <2>2. CASE \E k \in 1 .. Len(events') : events'[k].session = s
    BY <2>2
  <2> QED
    BY <2>1, <2>2 DEF Speaks
<1>2. \A s \in 1 .. Len(sessions) : AttemptPending(s)' <=> AttemptPending(s)
  BY DEF AttemptPending
<1>3. \A s \in 1 .. Len(sessions) : sessions[s].tag \in Nat \ {0} /\ Len(tabs) \in Nat
  BY SessionInType, LenProperties DEF Types, LayoutOK
<1>4. EventsTagged'
  BY DEF EventsTagged
<1>5. SpeakersPlaced'
  <2> SUFFICES ASSUME NEW s \in 1 .. Len(sessions), Speaks(s)'
               PROVE  /\ sessions'[s].phase # "connecting"
                      /\ \/ sessions'[s].tag <= Len(tabs') /\ tabs'[sessions'[s].tag].session = s
                         \/ /\ AttemptPending(s)'
                            /\ ~sessions'[s].told \/ (Len(results') = 1 /\ results'[1] = s)
    BY DEF SpeakersPlaced
  <2>1. Speaks(s)
    BY <1>1
  <2>2. /\ sessions[s].phase # "connecting"
        /\ \/ sessions[s].tag <= Len(tabs) /\ tabs[sessions[s].tag].session = s
           \/ AttemptPending(s) /\ (~sessions[s].told \/ (Len(results) = 1 /\ results[1] = s))
    BY <2>1 DEF Routing, SpeakersPlaced
  <2> QED
    BY <1>2, <1>3, <2>2
<1>6. UntoldPending' /\ ConnectingUntold'
  BY <1>2 DEF Routing, UntoldPending, ConnectingUntold
<1>7. ResultPending'
  <2>1. Len(results) # 0 => results[1] \in 0 .. Len(sessions) /\ Len(sessions) \in Nat
    BY ElementOfSeq, LenProperties DEF Types, NetOK
  <2> QED
    BY <1>2, <2>1 DEF Routing, ResultPending
<1>8. DialogAlone'
  BY DEF DialogAlone
<1> QED
  BY <1>4, <1>5, <1>6, <1>7, <1>8 DEF Routing

(* What a task's step does to the route of its session.                    *)
LEMMA TaskRoute ==
  ASSUME Types, NEW s \in 1 .. Len(sessions), Task(s)
  PROVE  \/ /\ sessions[s].phase = "connecting" /\ sessions'[s].phase = "running"
            /\ sessions'[s].told = sessions[s].told
            /\ UNCHANGED <<events, results>>
         \/ /\ sessions[s].phase # "connecting" /\ sessions'[s].phase = sessions[s].phase
            /\ ~sessions[s].told /\ sessions'[s].told = TRUE
            /\ UNCHANGED events /\ results' = Append(results, s)
         \/ /\ sessions[s].phase = "connecting" /\ sessions'[s].phase = "over"
            /\ sessions'[s].told = TRUE
            /\ UNCHANGED events /\ results' = Append(results, 0)
         \/ /\ Alive(s) /\ sessions'[s].phase # "connecting"
            /\ sessions'[s].told = sessions[s].told
            /\ UNCHANGED results
<1>1. sessions[s] \in SessionType /\ sessions \in [1 .. Len(sessions) -> SessionType]
  BY SessionInType, LenProperties DEF Types, NetOK
<1>2. \/ sessions[s].phase = "connecting" \/ sessions[s].phase = "over" \/ Alive(s)
  BY SessionInType DEF Alive
<1>3. CASE Connect(s)
  BY <1>1, <1>3 DEF Connect, SessionType
<1>4. CASE Report(s)
  BY <1>1, <1>4 DEF Report, SessionType
<1>5. CASE ConnectFails(s)
  BY <1>1, <1>5 DEF ConnectFails, SessionType
<1>6. sessions' = Over(s) => sessions'[s].phase = "over" /\ sessions'[s].told = sessions[s].told
  BY <1>1 DEF Over, SessionType
<1>7. CASE Data(s)
  BY <1>1, <1>7 DEF Data, Alive, SessionType
<1>8. CASE Break(s)
  BY <1>1, <1>8 DEF Break, Alive, SessionType
<1>9. CASE Ends(s)
  BY <1>6, <1>9 DEF Ends
<1>10. CASE Command(s)
  <2>1. Alive(s) /\ UNCHANGED results
    BY <1>10 DEF Command
  <2>2. \/ sessions' = Over(s)
        \/ sessions'[s].phase = sessions[s].phase /\ sessions'[s].told = sessions[s].told
    BY <1>1, <1>10 DEF Command, SessionType
  <2> QED
    BY <1>6, <2>1, <2>2 DEF Alive
<1> QED
  BY <1>3, <1>4, <1>5, <1>7, <1>8, <1>9, <1>10 DEF Task

(* Facts about the queues used below.                                      *)
LEMMA OldEvents ==
  ASSUME Types, Routing, NEW k \in 1 .. Len(events)
  PROVE  \E s \in 1 .. Len(sessions) :
           events[k].session = s /\ Speaks(s) /\ events[k].tag = sessions[s].tag
BY EventInType DEF Routing, EventsTagged, Speaks

(* The lengths of the queues, and a result that comes to an empty one.     *)
LEMMA ResultsAreASequence ==
  ASSUME Types
  PROVE  /\ Len(results) \in Nat /\ Len(events) \in Nat /\ Len(tabs) \in Nat /\ Len(sessions) \in Nat
         /\ \A x \in 0 .. Len(sessions) : Len(results) = 0 =>
              Len(Append(results, x)) = 1 /\ Append(results, x)[1] = x
<1>1. /\ results \in Seq(0 .. Len(sessions)) /\ events \in Seq(EventType(Len(sessions)))
      /\ tabs \in Seq(TabType(Len(sessions))) /\ sessions \in Seq(SessionType)
  BY DEF Types, NetOK, LayoutOK
<1> QED
  BY <1>1, LenProperties, AppendProperties

(* What a task sends goes by the index it was told.                        *)
LEMMA TaskKeepsRouting ==
  ASSUME Types, Types', Routing, NEW s \in 1 .. Len(sessions), Task(s)
  PROVE  Routing'
<1>1. /\ Len(sessions') = Len(sessions)
      /\ \A u \in 1 .. Len(sessions) : u # s => sessions'[u] = sessions[u]
      /\ sessions'[s].tag = sessions[s].tag
  BY TaskChanges
<1>2. UNCHANGED <<tabs, connecting, dialog>>
  BY DEF Task, layout, line
<1>3. /\ sessions[s].phase = "connecting" => ~sessions[s].told
      /\ ~sessions[s].told => AttemptPending(s) /\ Len(results) = 0
  BY DEF Routing, ConnectingUntold, UntoldPending
<1>4. \A u \in 1 .. Len(sessions) : AttemptPending(u)' <=> AttemptPending(u)
  BY <1>1, <1>2 DEF AttemptPending
<1>5. \A u \in 1 .. Len(sessions) : AttemptPending(u) /\ AttemptPending(s) => u = s
  BY DEF AttemptPending
<1>6. DialogAlone'
  BY <1>2 DEF Routing, DialogAlone
<1>7. UNCHANGED events => EventsTagged'
  BY <1>1, EventInType DEF Routing, EventsTagged
<1>8. \A u \in 1 .. Len(sessions) : u # s /\ UNCHANGED events => (Speaks(u)' <=> Speaks(u))
  BY <1>1 DEF Speaks, Alive
<1>9. CASE /\ sessions[s].phase = "connecting" /\ sessions'[s].phase = "running"
           /\ sessions'[s].told = sessions[s].told
           /\ UNCHANGED <<events, results>>
  <2>1. AttemptPending(s) /\ ~sessions[s].told /\ Len(results) = 0
    BY <1>3, <1>9
  <2>2. SpeakersPlaced'
    BY <1>1, <1>2, <1>4, <1>8, <1>9, <2>1 DEF Routing, SpeakersPlaced
  <2>3. UntoldPending' /\ ConnectingUntold' /\ ResultPending'
    BY <1>1, <1>4, <1>9, <2>1 DEF Routing, UntoldPending, ConnectingUntold, ResultPending
  <2> QED
    BY <1>6, <1>7, <1>9, <2>2, <2>3 DEF Routing
<1>10. CASE /\ sessions[s].phase # "connecting" /\ sessions'[s].phase = sessions[s].phase
            /\ ~sessions[s].told /\ sessions'[s].told = TRUE
            /\ UNCHANGED events /\ results' = Append(results, s)
  <2>1. AttemptPending(s) /\ Len(results) = 0
    BY <1>3, <1>10
  <2>2. Len(results') = 1 /\ results'[1] = s
    BY <1>10, <2>1, ResultsAreASequence
  <2>3. SpeakersPlaced'
    <3> SUFFICES ASSUME NEW u \in 1 .. Len(sessions), Speaks(u)'
                 PROVE  /\ sessions'[u].phase # "connecting"
                        /\ \/ sessions'[u].tag <= Len(tabs') /\ tabs'[sessions'[u].tag].session = u
                           \/ /\ AttemptPending(u)'
                              /\ ~sessions'[u].told \/ (Len(results') = 1 /\ results'[1] = u)
      BY <1>1 DEF SpeakersPlaced
    <3>1. CASE u = s
      BY <1>4, <1>10, <2>1, <2>2, <3>1
    <3>2. CASE u # s
      <4>1. Speaks(u) /\ ~AttemptPending(u)
        BY <1>5, <1>8, <1>10, <2>1, <3>2
      <4> QED
        BY <1>1, <1>2, <3>2, <4>1 DEF Routing, SpeakersPlaced
    <3> QED
      BY <3>1, <3>2
  <2>4. \A u \in 1 .. Len(sessions) : u # s => sessions[u].told
    BY <1>5, <2>1 DEF Routing, UntoldPending
  <2>5. UntoldPending' /\ ConnectingUntold'
    BY <1>1, <1>10, <2>4 DEF Routing, UntoldPending, ConnectingUntold
  <2>6. ResultPending'
    BY <1>2, <1>4, <2>1, <2>2 DEF ResultPending, AttemptPending
  <2> QED
    BY <1>6, <1>7, <1>10, <2>3, <2>5, <2>6 DEF Routing
<1>11. CASE /\ sessions[s].phase = "connecting" /\ sessions'[s].phase = "over"
            /\ sessions'[s].told = TRUE
            /\ UNCHANGED events /\ results' = Append(results, 0)
  <2>1. AttemptPending(s) /\ Len(results) = 0
    BY <1>3, <1>11
  <2>2. Len(results') = 1 /\ results'[1] = 0
    BY <1>11, <2>1, ResultsAreASequence
  <2>3. ~Speaks(s)
    BY <1>11 DEF Routing, SpeakersPlaced
  <2>4. ~Speaks(s)'
    BY <1>11, <2>3 DEF Speaks, Alive
  <2>5. SpeakersPlaced'
    <3> SUFFICES ASSUME NEW u \in 1 .. Len(sessions), Speaks(u)'
                 PROVE  /\ sessions'[u].phase # "connecting"
                        /\ sessions'[u].tag <= Len(tabs') /\ tabs'[sessions'[u].tag].session = u
      BY <1>1 DEF SpeakersPlaced
    <3>1. u # s
      BY <2>4
    <3>2. Speaks(u) /\ ~AttemptPending(u)
      BY <1>5, <1>8, <1>11, <2>1, <3>1
    <3> QED
      BY <1>1, <1>2, <3>1, <3>2 DEF Routing, SpeakersPlaced
  <2>6. \A u \in 1 .. Len(sessions) : u # s => sessions[u].told
    BY <1>5, <2>1 DEF Routing, UntoldPending
  <2>7. UntoldPending' /\ ConnectingUntold'
    BY <1>1, <1>11, <2>6 DEF Routing, UntoldPending, ConnectingUntold
  <2>8. ResultPending'
    BY <1>2, <2>1, <2>2 DEF ResultPending, AttemptPending
  <2> QED
    BY <1>6, <1>7, <1>11, <2>5, <2>7, <2>8 DEF Routing
<1>12. CASE /\ Alive(s) /\ sessions'[s].phase # "connecting"
            /\ sessions'[s].told = sessions[s].told
            /\ UNCHANGED results
  <2>1. \A u \in 1 .. Len(sessions) :
          /\ sessions'[u].tag = sessions[u].tag
          /\ sessions'[u].told = sessions[u].told
          /\ sessions'[u].phase = "connecting" <=> sessions[u].phase = "connecting"
          /\ sessions'[u].phase \in {"running", "broken"} => sessions[u].phase \in {"running", "broken"}
    BY <1>1, <1>12 DEF Alive
  <2>2. Speaks(s)
    BY <1>12 DEF Speaks
  <2>3. \A k \in 1 .. Len(events') : \E u \in 1 .. Len(sessions) :
          events'[k].session = u /\ Speaks(u) /\ events'[k].tag = sessions[u].tag
    <3>1. CASE UNCHANGED events
      BY <3>1, OldEvents
    <3>2. ASSUME NEW e, e.session = s, e.tag = sessions[s].tag, events' = Append(events, e)
          PROVE  \A k \in 1 .. Len(events') : \E u \in 1 .. Len(sessions) :
                   events'[k].session = u /\ Speaks(u) /\ events'[k].tag = sessions[u].tag
      <4>1. events \in Seq(EventType(Len(sessions)))
        BY DEF Types, NetOK
      <4>2. /\ Len(events') = Len(events) + 1 /\ events'[Len(events) + 1] = e
            /\ \A k \in 1 .. Len(events) : events'[k] = events[k]
        BY <3>2, <4>1
      <4> TAKE k \in 1 .. Len(events')
      <4>3. CASE k \in 1 .. Len(events)
        BY <4>2, <4>3, OldEvents
      <4>4. CASE k = Len(events) + 1
        BY <2>2, <3>2, <4>2, <4>4
      <4> QED
        BY <4>2, <4>3, <4>4, ResultsAreASequence
    <3>3. \A n : /\ Event(s, "closed", n).session = s /\ Event(s, "closed", n).tag = sessions[s].tag
                 /\ Event(s, "data", n).session = s /\ Event(s, "data", n).tag = sessions[s].tag
      BY DEF Event
    <3> QED
      BY <3>1, <3>2, <3>3, TaskSends
  <2>4. dialog' => ~connecting
    BY <1>2 DEF Routing, DialogAlone
  <2> QED
    BY <1>1, <1>2, <1>12, <2>1, <2>3, <2>4, QuietStep
<1> QED
  BY <1>9, <1>10, <1>11, <1>12, TaskRoute

(* The result of an attempt: its tab comes where its task was told it      *)
(* would be.                                                               *)
LEMMA HandleResultKeepsRouting ==
  ASSUME Types, Routing, HandleResult
  PROVE  Routing'
<1> DEFINE r == Head(results)
<1>1. /\ results # << >> /\ results' = Tail(results) /\ connecting' = FALSE
      /\ UNCHANGED <<sessions, events, dialog>>
      /\ \/ r # 0 /\ tabs' = Append(tabs, NewTab(r))
         \/ r = 0 /\ UNCHANGED tabs
  BY DEF HandleResult
<1>2. /\ results \in Seq(0 .. Len(sessions)) /\ tabs \in Seq(TabType(Len(sessions)))
      /\ Len(results) \in Nat /\ Len(tabs) \in Nat /\ Len(sessions) \in Nat
  BY ResultsAreASequence DEF Types, NetOK, LayoutOK
<1>3. Len(results) # 0 /\ results[1] = r
  BY <1>1, <1>2
<1>4. Len(results) = 1 /\ (r # 0 => AttemptPending(r))
  BY <1>3 DEF Routing, ResultPending
<1>5. Len(results') = 0
  BY <1>1, <1>2, <1>4, HeadTailProperties
<1>6. \A s \in 1 .. Len(sessions) : sessions[s].told
  BY <1>3 DEF Routing, UntoldPending
<1>7. /\ \A i \in 1 .. Len(tabs) : tabs'[i] = tabs[i]
      /\ Len(tabs') >= Len(tabs)
      /\ r # 0 => Len(tabs') = Len(tabs) + 1 /\ tabs'[Len(tabs) + 1].session = r
  <2>1. CASE r = 0
    BY <1>1, <1>2, <2>1
  <2>2. CASE r # 0
    <3>1. NewTab(r).session = r
      BY DEF NewTab
    <3>2. tabs' = Append(tabs, NewTab(r))
      BY <1>1, <2>2
    <3> HIDE DEF r
    <3> QED
      BY <1>2, <3>1, <3>2
  <2> QED
    BY <2>1, <2>2
<1>8. SpeakersPlaced'
  <2> SUFFICES ASSUME NEW s \in 1 .. Len(sessions), Speaks(s)'
               PROVE  /\ sessions[s].phase # "connecting"
                      /\ sessions[s].tag <= Len(tabs') /\ tabs'[sessions[s].tag].session = s
    BY <1>1 DEF SpeakersPlaced
  <2>1. Speaks(s)
    BY <1>1 DEF Speaks, Alive
  <2>2. /\ sessions[s].phase # "connecting"
        /\ \/ sessions[s].tag <= Len(tabs) /\ tabs[sessions[s].tag].session = s
           \/ AttemptPending(s) /\ r = s
    BY <1>6, <2>1 DEF Routing, SpeakersPlaced
  <2>3. sessions[s].tag \in Nat \ {0}
    BY SessionInType
  <2>4. CASE sessions[s].tag <= Len(tabs) /\ tabs[sessions[s].tag].session = s
    <3>1. sessions[s].tag \in 1 .. Len(tabs)
      BY <1>2, <2>3, <2>4
    <3>2. Len(tabs') \in Nat
      BY <1>1, <1>2, <1>7
    <3> QED
      BY <1>2, <1>7, <2>2, <2>3, <2>4, <3>1, <3>2
  <2>5. CASE AttemptPending(s) /\ r = s
    BY <1>2, <1>7, <2>2, <2>5 DEF AttemptPending
  <2> QED
    BY <2>2, <2>4, <2>5
<1>9. EventsTagged' /\ UntoldPending' /\ ConnectingUntold'
  BY <1>1, <1>6 DEF Routing, EventsTagged, UntoldPending, ConnectingUntold
<1>10. ResultPending' /\ DialogAlone'
  BY <1>1, <1>5 DEF ResultPending, DialogAlone
<1> QED
  BY <1>8, <1>9, <1>10 DEF Routing

(* A new attempt, when nothing is left of an earlier one.                  *)
LEMMA StartAttemptKeepsRouting ==
  ASSUME Types, Types', Routing, StartAttempt
  PROVE  Routing'
<1> DEFINE x == NewSession(Len(tabs) + 1, term)
<1>0. PICK n \in Nat : n = Len(sessions)
  BY ResultsAreASequence
<1>1. /\ dialog /\ ~dialog' /\ connecting'
      /\ UNCHANGED <<events, results, tabs>>
      /\ sessions' = Append(sessions, x)
  BY DEF StartAttempt
<1>2. x.tag = Len(tabs) + 1 /\ x.phase = "connecting" /\ x.told = FALSE
  BY DEF NewSession
<1> HIDE DEF x
<1>3. /\ sessions \in Seq(SessionType) /\ n \in Nat /\ Len(results) \in Nat /\ Len(events) \in Nat
      /\ Len(tabs) \in Nat
  BY <1>0, ResultsAreASequence DEF Types, NetOK
<1>4. /\ Len(sessions') = n + 1 /\ sessions'[n + 1] = x
      /\ \A s \in 1 .. n : sessions'[s] = sessions[s]
  BY <1>0, <1>1, <1>3
<1>5. ~connecting /\ Len(results) = 0
  BY <1>1, <1>3 DEF Routing, DialogAlone, ResultPending
<1>6. \A s \in 1 .. n : sessions[s].told /\ ~AttemptPending(s)
  BY <1>0, <1>5 DEF Routing, UntoldPending, AttemptPending
<1>7. \A k \in 1 .. Len(events) : events[k].session \in 1 .. n
  BY <1>0, EventInType
<1>8. n + 1 \notin 1 .. n /\ n + 1 \in 1 .. n + 1 /\ \A s \in 1 .. n + 1 : s \in 1 .. n \/ s = n + 1
  BY <1>3
<1>9. AttemptPending(n + 1)'
  BY <1>1, <1>2, <1>4 DEF AttemptPending
<1>10. ~Speaks(n + 1)'
  BY <1>1, <1>2, <1>4, <1>7, <1>8 DEF Speaks, Alive
<1>11. \A s \in 1 .. n : Speaks(s)' => Speaks(s)
  BY <1>1, <1>4 DEF Speaks, Alive
<1>12. EventsTagged'
  BY <1>1, <1>4, <1>7 DEF Routing, EventsTagged
<1>13. SpeakersPlaced'
  <2> SUFFICES ASSUME NEW s \in 1 .. n + 1, Speaks(s)'
               PROVE  /\ sessions'[s].phase # "connecting"
                      /\ sessions'[s].tag <= Len(tabs') /\ tabs'[sessions'[s].tag].session = s
    BY <1>4 DEF SpeakersPlaced
  <2>1. s \in 1 .. n
    BY <1>8, <1>10
  <2>2. Speaks(s) /\ ~AttemptPending(s)
    BY <1>6, <1>11, <2>1
  <2> QED
    BY <1>0, <1>1, <1>4, <2>1, <2>2 DEF Routing, SpeakersPlaced
<1>14. UntoldPending'
  <2> SUFFICES ASSUME NEW s \in 1 .. n + 1, ~sessions'[s].told
               PROVE  AttemptPending(s)' /\ Len(results') = 0
    BY <1>4 DEF UntoldPending
  <2>1. s = n + 1
    BY <1>4, <1>6, <1>8
  <2> QED
    BY <1>1, <1>5, <1>9, <2>1
<1>15. ConnectingUntold'
  <2> SUFFICES ASSUME NEW s \in 1 .. n + 1, sessions'[s].phase = "connecting"
               PROVE  ~sessions'[s].told
    BY <1>4 DEF ConnectingUntold
  <2> QED
    BY <1>0, <1>2, <1>4, <1>8 DEF Routing, ConnectingUntold
<1>16. ResultPending' /\ DialogAlone'
  BY <1>1, <1>5 DEF ResultPending, DialogAlone
<1> QED
  BY <1>12, <1>13, <1>14, <1>15, <1>16 DEF Routing

(* Every other step is quiet.                                              *)
LEMMA KeptKeepsRouting ==
  ASSUME Types, Types', Routing, Kept, UNCHANGED <<results, connecting>>, dialog' => ~connecting,
         \/ UNCHANGED events
         \/ events # << >> /\ events' = Tail(events)
  PROVE  Routing'
<1>1. /\ Len(sessions') = Len(sessions)
      /\ \A s \in 1 .. Len(sessions) :
           /\ sessions'[s].tag = sessions[s].tag
           /\ sessions'[s].told = sessions[s].told
           /\ sessions'[s].phase = "connecting" <=> sessions[s].phase = "connecting"
           /\ sessions'[s].phase \in {"running", "broken"} => sessions[s].phase \in {"running", "broken"}
      /\ Len(tabs') = Len(tabs)
      /\ \A i \in 1 .. Len(tabs) : tabs'[i].session = tabs[i].session
  BY DEF Kept, SameRoute
<1>2. \A k \in 1 .. Len(events') : \E j \in 1 .. Len(events) : events'[k] = events[j]
  <2>1. CASE UNCHANGED events
    BY <2>1
  <2>2. CASE events # << >> /\ events' = Tail(events)
    <3>1. events \in Seq(EventType(Len(sessions))) /\ Len(events) \in Nat
      BY ResultsAreASequence DEF Types, NetOK
    <3>2. Len(events') = Len(events) - 1 /\ \A k \in 1 .. Len(events') : events'[k] = events[k + 1]
      BY <2>2, <3>1, HeadTailProperties
    <3>3. \A k \in 1 .. Len(events') : k + 1 \in 1 .. Len(events)
      BY <3>1, <3>2
    <3> QED
      BY <3>2, <3>3
  <2> QED
    BY <2>1, <2>2
<1>3. \A k \in 1 .. Len(events') : \E s \in 1 .. Len(sessions) :
        events'[k].session = s /\ Speaks(s) /\ events'[k].tag = sessions[s].tag
  <2> TAKE k \in 1 .. Len(events')
  <2>1. PICK j \in 1 .. Len(events) : events'[k] = events[j]
    BY <1>2
  <2>2. PICK s \in 1 .. Len(sessions) : events[j].session = s /\ Speaks(s) /\ events[j].tag = sessions[s].tag
    BY OldEvents
  <2> QED
    BY <2>1, <2>2
<1> QED
  BY <1>1, <1>3, QuietStep

(* Every arm and every task keeps the routes.                              *)
LEMMA StepRouting == Types /\ ActiveIsOpen /\ Routing /\ [Next]_vars => Routing'
<1> SUFFICES ASSUME Types, ActiveIsOpen, Routing, [Next]_vars PROVE Routing'
  OBVIOUS
<1>1. Types'
  BY StepTypes
<1>2. dialog => ~connecting
  BY DEF Routing, DialogAlone
<1>3. CASE \E s \in 1 .. Len(sessions) : Task(s)
  BY <1>1, <1>3, TaskKeepsRouting
<1>4. CASE HandleEvent
  BY <1>1, <1>2, <1>4, HandleEventKeeps, KeptKeepsRouting DEF line
<1>5. CASE HandleResult
  BY <1>5, HandleResultKeepsRouting
<1>6. CASE (DialogEnter \/ DialogEscape \/ DialogEdit \/ OpenDialog) /\ UNCHANGED screen
  <2>1. \/ StartAttempt
        \/ Kept /\ UNCHANGED <<events, results, connecting>> /\ (dialog' => dialog \/ ~connecting)
    BY <1>6, DialogKey
  <2> QED
    BY <1>1, <1>2, <2>1, StartAttemptKeepsRouting, KeptKeepsRouting
<1>7. CASE Kept /\ UNCHANGED <<events, results, line>>
  BY <1>1, <1>2, <1>7, KeptKeepsRouting DEF line
<1> QED
  BY <1>3, <1>4, <1>5, <1>6, <1>7, Steps

(* Whenever tabs are opened and closed, sessions end and attempts fail, an *)
(* event that is handled reaches the tab of the session it came from.      *)
THEOREM EventsAreRouted == Spec => []EventsReachTheirTab
<1>1. Init => Types /\ ActiveIsOpen /\ Routing
  BY InitTypes, InitRouting
<1>2. Types /\ ActiveIsOpen /\ Routing /\ [Next]_vars => Types' /\ ActiveIsOpen' /\ Routing'
  BY StepTypes, StepRouting
<1>3. Types /\ Routing => EventsReachTheirTab
  BY RoutingIsEnough
<1> QED
  BY <1>1, <1>2, <1>3, PTL DEF Spec

-----------------------------------------------------------------------------
(* Widths.  A tab is the only one of its session, because the session's    *)
(* tag is its index; and nothing is sent to a session before its tab is    *)
(* there, so that its PTY then still has the width it was given.           *)
TabsTagged == \A i \in 1 .. Len(tabs) : sessions[tabs[i].session].tag = i

QuietBefore ==
  \A s \in 1 .. Len(sessions) : sessions[s].tag > Len(tabs) => sessions[s].commands = << >>

(* The grid of tab i.                                                      *)
GridFollows(i) ==
  LET x == sessions[tabs[i].session]
  IN ~closed[i] /\ x.phase = "running" => GetsWidth(x, tabs[i].cols)

GridInv ==
  /\ TabsTagged
  /\ QuietBefore
  /\ \A i \in 1 .. Len(tabs) : GridFollows(i)

(* The last resize that waits is the width the terminal has.               *)
ResizesEnd == resizes # << >> => resizes[Len(resizes)] = term

PanesInv ==
  /\ StartTabs <= Len(tabs)
  /\ ResizesEnd
  /\ PanesFit

-----------------------------------------------------------------------------
(* A command at the end of the queue, and the next one taken from it.      *)
LEMMA WidthAppend ==
  ASSUME NEW x, NEW y, NEW T, x.commands \in Seq(T), NEW c,
         y.commands = Append(x.commands, c), y.pty = x.pty
  PROVE  /\ c.kind = "resize" => GetsWidth(y, c.cols)
         /\ c.kind # "resize" => \A w : GetsWidth(x, w) => GetsWidth(y, w)
<1> DEFINE q == x.commands
           n == Len(q)
<1>1. /\ n \in Nat /\ DOMAIN q = 1 .. n /\ DOMAIN y.commands = 1 .. n + 1
      /\ y.commands[n + 1] = c /\ \A k \in 1 .. n : y.commands[k] = q[k]
  OBVIOUS
<1>2. ASSUME c.kind = "resize"
      PROVE  GetsWidth(y, c.cols)
  <2>1. n + 1 \in 1 .. n + 1 /\ \A j \in 1 .. n + 1 : j <= n + 1
    BY <1>1
  <2> HIDE DEF n
  <2> QED
    BY <1>1, <1>2, <2>1 DEF GetsWidth
<1>3. ASSUME c.kind # "resize"
      PROVE  \A w : GetsWidth(x, w) => GetsWidth(y, w)
  <2>1. {k \in 1 .. n + 1 : y.commands[k].kind = "resize"} = {k \in 1 .. n : q[k].kind = "resize"}
    <3>1. \A k \in 1 .. n + 1 : k \in 1 .. n \/ k = n + 1
      BY <1>1
    <3>2. \A k \in 1 .. n : k \in 1 .. n + 1
      BY <1>1
    <3> HIDE DEF n
    <3> QED
      BY <1>1, <1>3, <3>1, <3>2
  <2> HIDE DEF n
  <2> QED
    BY <1>1, <2>1 DEF GetsWidth
<1> QED
  BY <1>2, <1>3

(* A command taken from the queue, and done if it is a resize, leaves the  *)
(* width the queue leads to.                                               *)
LEMMA WidthTail ==
  ASSUME NEW x, NEW y, NEW T, x.commands \in Seq(T), x.commands # << >>,
         y.commands = Tail(x.commands),
         y.pty = IF Head(x.commands).kind = "resize" THEN Head(x.commands).cols ELSE x.pty,
         NEW w, GetsWidth(x, w)
  PROVE  GetsWidth(y, w)
<1> DEFINE q == x.commands
           r == y.commands
           n == Len(q)
<1>1. /\ n \in Nat /\ n > 0 /\ DOMAIN q = 1 .. n /\ DOMAIN r = 1 .. n - 1
      /\ Head(q) = q[1] /\ \A k \in 1 .. n - 1 : r[k] = q[k + 1]
  BY HeadTailProperties
<1> DEFINE xs == {k \in DOMAIN q : q[k].kind = "resize"}
           ys == {k \in DOMAIN r : r[k].kind = "resize"}
<1> HIDE DEF n, q, r
<1>2. /\ \A j \in 1 .. n - 1 : j \in ys <=> j + 1 \in xs
      /\ \A j \in ys : j \in 1 .. n - 1 /\ j + 1 \in xs
  <2>1. \A j \in 1 .. n - 1 : j + 1 \in 1 .. n
    BY <1>1
  <2>2. \A j \in ys : j \in 1 .. n - 1
    BY <1>1
  <2>3. \A j \in 1 .. n - 1 : j \in ys <=> j + 1 \in xs
    BY <1>1, <2>1
  <2> QED
    BY <2>2, <2>3
<1>3. CASE xs = {}
  <2>1. q[1].kind # "resize"
    BY <1>1, <1>3
  <2>2. ys = {}
    BY <1>2, <1>3
  <2> QED
    BY <1>1, <1>3, <2>1, <2>2 DEF GetsWidth, q, r
<1>4. ASSUME NEW k \in xs, q[k].cols = w, \A j \in xs : j <= k
      PROVE  GetsWidth(y, w)
  <2>1. k \in 1 .. n
    BY <1>1
  <2>2. CASE k = 1
    <3>1. ys = {}
      <4> SUFFICES ASSUME NEW j \in ys
                   PROVE  FALSE
        OBVIOUS
      <4>1. j \in 1 .. n - 1 /\ j + 1 <= 1
        BY <1>2, <1>4, <2>2
      <4> QED
        BY <1>1, <4>1
    <3>2. y.pty = w
      BY <1>1, <1>4, <2>2 DEF q
    <3> QED
      BY <3>1, <3>2 DEF GetsWidth, r
  <2>3. CASE k # 1
    <3>1. k - 1 \in 1 .. n - 1 /\ k - 1 + 1 = k
      BY <1>1, <2>1, <2>3
    <3>2. k - 1 \in ys /\ r[k - 1].cols = w
      BY <1>1, <1>2, <1>4, <3>1
    <3>3. \A j \in ys : j <= k - 1
      <4> SUFFICES ASSUME NEW j \in ys
                   PROVE  j <= k - 1
        OBVIOUS
      <4>1. j \in 1 .. n - 1 /\ j + 1 <= k
        BY <1>2, <1>4
      <4> QED
        BY <2>1, <4>1
    <3> QED
      BY <3>2, <3>3 DEF GetsWidth, r
  <2> QED
    BY <2>2, <2>3
<1> QED
  BY <1>3, <1>4 DEF GetsWidth, q

(* Whether a PTY gets a width depends on its session's queue and width.    *)
LEMMA WidthSame ==
  ASSUME NEW x, NEW y, y.commands = x.commands, y.pty = x.pty, NEW w, GetsWidth(x, w)
  PROVE  GetsWidth(y, w)
BY DEF GetsWidth

(* What a task does to the width its PTY gets.                             *)
LEMMA TaskWidths ==
  ASSUME Types, NEW s \in 1 .. Len(sessions), Task(s)
  PROVE  /\ sessions[s].commands = << >> => sessions'[s].commands = << >>
         /\ sessions'[s].phase = "running" =>
              /\ sessions[s].phase \in {"running", "connecting"}
              /\ \A w : GetsWidth(sessions[s], w) => GetsWidth(sessions'[s], w)
<1> DEFINE x == sessions[s]
           y == sessions'[s]
<1>1. x \in SessionType /\ sessions \in [1 .. Len(sessions) -> SessionType]
  BY SessionInType, LenProperties DEF Types, NetOK
<1>2. CASE Connect(s) \/ Report(s) \/ ConnectFails(s) \/ Data(s) \/ Break(s)
  <2>1. /\ y.commands = x.commands /\ y.pty = x.pty
        /\ y.phase = "running" => x.phase \in {"running", "connecting"}
    <3>1. CASE Connect(s)
      BY <1>1, <3>1 DEF Connect, SessionType
    <3>2. CASE Report(s)
      <4>1. y = [x EXCEPT !.told = TRUE]
        BY <1>1, <3>2 DEF Report
      <4>2. y.commands = x.commands /\ y.pty = x.pty /\ y.phase = x.phase
        <5> HIDE DEF x, y
        <5> QED
          BY <1>1, <4>1 DEF SessionType
      <4> QED
        BY <1>1, <3>2, <4>2 DEF Report, SessionType
    <3>3. CASE ConnectFails(s)
      BY <1>1, <3>3 DEF ConnectFails, SessionType
    <3>4. CASE Data(s)
      BY <1>1, <3>4 DEF Data, SessionType
    <3>5. CASE Break(s)
      BY <1>1, <3>5 DEF Break, SessionType
    <3> QED
      BY <1>2, <3>1, <3>2, <3>3, <3>4, <3>5
  <2>2. \A w : GetsWidth(x, w) => GetsWidth(y, w)
    BY <2>1, WidthSame
  <2> QED
    BY <2>1, <2>2
<1>3. ASSUME sessions' = Over(s)
      PROVE  y.phase = "over" /\ y.commands = << >>
  BY <1>1, <1>3 DEF Over, SessionType
<1>4. CASE Ends(s)
  BY <1>3, <1>4 DEF Ends
<1>5. CASE Command(s)
  <2> DEFINE c == Head(x.commands)
  <2>1. x.commands # << >> /\ x.commands \in Seq(Commands)
    BY <1>1, <1>5 DEF Command, SessionType
  <2>2. \/ sessions' = Over(s)
        \/ /\ y.phase = x.phase /\ y.commands = Tail(x.commands)
           /\ y.pty = IF c.kind = "resize" /\ x.phase = "running" THEN c.cols ELSE x.pty
    BY <1>1, <1>5 DEF Command, SessionType
  <2>3. CASE /\ y.phase = x.phase /\ y.commands = Tail(x.commands)
             /\ y.pty = IF c.kind = "resize" /\ x.phase = "running" THEN c.cols ELSE x.pty
    <3> HIDE DEF x, y
    <3>1. x.phase = "running" => \A w : GetsWidth(x, w) => GetsWidth(y, w)
      BY <2>1, <2>3, WidthTail
    <3> QED
      BY <2>1, <2>3, <3>1 DEF x, y
  <2> QED
    BY <1>3, <2>1, <2>2, <2>3
<1> QED
  BY <1>2, <1>4, <1>5 DEF Task

(* A step of the loop after which every open grid follows its PTY, or has  *)
(* the width it had and so has the PTY; sessions without a tab are let be. *)
TabFollows(i) ==
  LET s == tabs[i].session
  IN \/ GetsWidth(sessions'[s], tabs'[i].cols)
     \/ /\ tabs'[i].cols = tabs[i].cols
        /\ \A w : GetsWidth(sessions[s], w) => GetsWidth(sessions'[s], w)

Follows(i) == ~closed'[i] /\ sessions[tabs[i].session].phase = "running" => ~closed[i] /\ TabFollows(i)

QuietKept ==
  \A s \in 1 .. Len(sessions) : sessions[s].tag > Len(tabs) => sessions'[s].commands = sessions[s].commands

(* Tabs that follow, with the routes kept, are all that GridInv asks of a  *)
(* step.                                                                   *)
LEMMA FollowsIsEnough ==
  ASSUME Types, GridInv, Kept, QuietKept, \A i \in 1 .. Len(tabs) : Follows(i)
  PROVE  GridInv'
<1>1. \A i \in 1 .. Len(tabs) : tabs[i].session \in 1 .. Len(sessions)
  BY TabInType
<1>2. TabsTagged'
  BY <1>1 DEF GridInv, TabsTagged, Kept, SameRoute
<1>3. QuietBefore'
  BY DEF GridInv, QuietBefore, QuietKept, Kept, SameRoute
<1>4. \A i \in 1 .. Len(tabs') : GridFollows(i)'
  <2> SUFFICES ASSUME NEW i \in 1 .. Len(tabs), ~closed'[i],
                      sessions'[tabs'[i].session].phase = "running"
               PROVE  GetsWidth(sessions'[tabs'[i].session], tabs'[i].cols)
    BY DEF Kept, GridFollows
  <2>1. tabs'[i].session = tabs[i].session /\ sessions[tabs[i].session].phase = "running"
    BY <1>1 DEF Kept, SameRoute
  <2>2. ~closed[i] /\ TabFollows(i)
    BY <2>1 DEF Follows
  <2>3. GetsWidth(sessions[tabs[i].session], tabs[i].cols)
    BY <2>1, <2>2 DEF GridInv, GridFollows
  <2> QED
    BY <2>1, <2>2, <2>3 DEF TabFollows
<1> QED
  BY <1>2, <1>3, <1>4 DEF GridInv

(* A resize is the last word on the width, a key says nothing of it.       *)
LEMMA CommandWidth ==
  ASSUME Types, NEW s \in 1 .. Len(sessions), sessions[s].phase = "running"
  PROVE  /\ \A w : GetsWidth(ResizeCommand(s, w), w)
         /\ \A w : GetsWidth(sessions[s], w) => GetsWidth(WithCommand(s, [kind |-> "input"]), w)
<1> DEFINE x == sessions[s]
<1>1. x \in SessionType /\ x.commands \in Seq(Commands) /\ Alive(s)
  BY SessionInType DEF SessionType, Alive
<1>2. ASSUME NEW c
      PROVE  /\ WithCommand(s, c).commands = Append(x.commands, c)
             /\ WithCommand(s, c).pty = x.pty
  <2>1. WithCommand(s, c) = [x EXCEPT !.commands = Append(@, c)]
    BY <1>1 DEF WithCommand
  <2> HIDE DEF x
  <2> QED
    BY <1>1, <2>1 DEF SessionType
<1> HIDE DEF x
<1>3. ASSUME NEW w
      PROVE  GetsWidth(ResizeCommand(s, w), w)
  <2> DEFINE c == [kind |-> "resize", cols |-> w]
  <2>1. c.kind = "resize" /\ c.cols = w
    OBVIOUS
  <2> HIDE DEF c
  <2>2. GetsWidth(WithCommand(s, c), c.cols)
    BY <1>1, <1>2, <2>1, WidthAppend
  <2> QED
    BY <2>1, <2>2 DEF ResizeCommand, c
<1>4. \A w : GetsWidth(x, w) => GetsWidth(WithCommand(s, [kind |-> "input"]), w)
  <2> DEFINE c == [kind |-> "input"]
  <2>1. c.kind # "resize"
    OBVIOUS
  <2> HIDE DEF c
  <2>2. \A w : GetsWidth(x, w) => GetsWidth(WithCommand(s, c), w)
    BY <1>1, <1>2, <2>1, WidthAppend
  <2> QED
    BY <2>2 DEF c
<1> QED
  BY <1>3, <1>4 DEF x

(* resize_pane reaches the session of each of its tabs, and no other.      *)
LEMMA ResizePanesColumns ==
  ASSUME Types, NEW W \in SUBSET (1 .. Len(tabs)), NEW cols \in [W -> Nat], ResizePanes(cols),
         NEW i \in 1 .. Len(tabs)
  PROVE  tabs'[i].cols = IF i \in W THEN cols[i] ELSE tabs[i].cols
<1>1. tabs[i] \in TabType(Len(sessions)) /\ DOMAIN tabs = 1 .. Len(tabs)
  BY TabInType, LenProperties DEF Types, LayoutOK
<1>2. tabs'[i] = IF i \in W THEN [tabs[i] EXCEPT !.cols = cols[i]] ELSE tabs[i]
  BY <1>1 DEF ResizePanes
<1> QED
  BY <1>1, <1>2 DEF TabType

(* resize_panes tells the sessions of the panes the width it gives the     *)
(* grids.                                                                  *)
LEMMA ResizePanesFollow ==
  ASSUME Types, GridInv, NEW W \in SUBSET (1 .. Len(tabs)), NEW cols \in [W -> Nat],
         ResizePanes(cols)
  PROVE  /\ QuietKept
         /\ \A i \in 1 .. Len(tabs) :
              sessions[tabs[i].session].phase = "running" => TabFollows(i)
<1>1. \A i \in 1 .. Len(tabs) : tabs[i].session \in 1 .. Len(sessions)
  BY TabInType
<1>2. \A i \in 1 .. Len(tabs) : sessions[tabs[i].session].tag = i
  BY DEF GridInv, TabsTagged
<1>3. Len(tabs) \in Nat /\ DOMAIN sessions = 1 .. Len(sessions) /\ DOMAIN cols = W
  BY LenProperties DEF Types, NetOK, LayoutOK
<1>4. \A s \in 1 .. Len(sessions) :
        sessions'[s] = IF \E i \in W : tabs[i].session = s
                       THEN ResizeCommand(s, cols[CHOOSE i \in W : tabs[i].session = s])
                       ELSE sessions[s]
  BY <1>3 DEF ResizePanes
<1>5. QuietKept
  <2> SUFFICES ASSUME NEW s \in 1 .. Len(sessions), sessions[s].tag > Len(tabs)
               PROVE  sessions'[s].commands = sessions[s].commands
    BY DEF QuietKept
  <2>1. ~ \E i \in W : tabs[i].session = s
    BY <1>2, <1>3
  <2> QED
    BY <1>4, <2>1
<1>6. ASSUME NEW i \in 1 .. Len(tabs), sessions[tabs[i].session].phase = "running"
      PROVE  TabFollows(i)
  <2> DEFINE s == tabs[i].session
  <2>1. s \in 1 .. Len(sessions)
    BY <1>1
  <2>2. CASE i \in W
    <3>1. (CHOOSE j \in W : tabs[j].session = s) = i
      BY <1>2, <2>2
    <3>2. sessions'[s] = ResizeCommand(s, cols[i])
      BY <1>4, <2>1, <2>2, <3>1
    <3>3. tabs'[i].cols = cols[i]
      BY <2>2, ResizePanesColumns
    <3> QED
      BY <1>6, <2>1, <3>2, <3>3, CommandWidth DEF TabFollows
  <2>3. CASE i \notin W
    <3>1. ~ \E j \in W : tabs[j].session = s
      BY <1>2, <2>3
    <3>2. sessions'[s] = sessions[s]
      BY <1>4, <2>1, <3>1
    <3>3. tabs'[i].cols = tabs[i].cols
      BY <2>3, ResizePanesColumns
    <3> QED
      BY <3>2, <3>3 DEF TabFollows
  <2> QED
    BY <2>2, <2>3
<1> QED
  BY <1>5, <1>6

(* Where no session and no width changes, every tab follows as before.     *)
LEMMA SessionsStay ==
  ASSUME Types, UNCHANGED sessions,
         \A i \in 1 .. Len(tabs) : tabs'[i].cols = tabs[i].cols /\ (~closed'[i] => ~closed[i])
  PROVE  QuietKept /\ \A i \in 1 .. Len(tabs) : Follows(i)
BY DEF QuietKept, Follows, TabFollows

(* The end of a split gives its panes the full width again.                *)
LEMMA LeaveSplitFollows ==
  ASSUME Types, GridInv, LeaveSplit, \A i \in 1 .. Len(tabs) : ~closed'[i] => ~closed[i]
  PROVE  QuietKept /\ \A i \in 1 .. Len(tabs) : Follows(i)
<1>1. CASE split = NoSplit
  BY <1>1, SessionsStay DEF LeaveSplit
<1>2. CASE split # NoSplit
  <2> DEFINE W == {split.l, split.r}
             cols == [i \in W |-> term]
  <2>1. term \in Nat /\ W \in SUBSET (1 .. Len(tabs))
    BY <1>2, WidthAssumption DEF Types, LayoutOK, ScreenOK
  <2>2. cols \in [W -> Nat] /\ ResizePanes(cols)
    BY <1>2, <2>1 DEF LeaveSplit
  <2> HIDE DEF W, cols
  <2> QED
    BY <2>1, <2>2, ResizePanesFollow DEF Follows
<1> QED
  BY <1>1, <1>2

(* So does a split with its two widths.                                    *)
LEMMA ToggleSplitFollows ==
  ASSUME Types, GridInv, ToggleSplit
  PROVE  QuietKept /\ \A i \in 1 .. Len(tabs) : Follows(i)
<1> DEFINE partner == NextOpen(closed, active)
           w == SplitWidths(term)
           W == {active, partner}
           cols == [i \in W |-> IF i = active THEN w.l ELSE w.r]
<1>1. Len(tabs) \in Nat \ {0} /\ closed \in [1 .. Len(tabs) -> BOOLEAN] /\ active \in 1 .. Len(tabs)
  BY LenProperties DEF Types, LayoutOK
<1>2. partner \in 1 .. Len(tabs)
  BY <1>1, FunctionIsSeq, NextOpenIsOpen
<1>3. closed' = closed
  BY DEF ToggleSplit
<1>4. CASE LeaveSplit
  BY <1>3, <1>4, LeaveSplitFollows
<1>5. CASE ResizePanes(cols)
  <2>1. w.l \in Nat /\ w.r \in Nat
    BY PaneWidths, WidthAssumption DEF Types, ScreenOK
  <2> HIDE DEF w, partner
  <2>2. W \in SUBSET (1 .. Len(tabs)) /\ cols \in [W -> Nat]
    BY <1>1, <1>2, <2>1
  <2> HIDE DEF W, cols
  <2> QED
    BY <1>3, <1>5, <2>2, ResizePanesFollow DEF Follows
<1> QED
  BY <1>4, <1>5 DEF ToggleSplit

(* A resize event reaches the sessions of all open tabs.                  *)
LEMMA HandleResizeFollows ==
  ASSUME Types, GridInv, HandleResize
  PROVE  QuietKept /\ \A i \in 1 .. Len(tabs) : Follows(i)
<1> DEFINE w == SplitWidths(Head(resizes))
           W == {j \in DOMAIN tabs : ~closed[j]}
           Width(i) == IF i = split.l THEN w.l ELSE IF i = split.r THEN w.r ELSE Head(resizes)
           cols == [i \in W |-> Width(i)]
<1>1. Head(resizes) \in Nat \ {0}
  <2>1. resizes # << >> /\ resizes \in Seq(Widths)
    BY DEF HandleResize, Types, ScreenOK
  <2> QED
    BY <2>1, HeadTailProperties, WidthAssumption
<1>2. w.l \in Nat /\ w.r \in Nat
  BY <1>1, PaneWidths
<1>3. W \in SUBSET (1 .. Len(tabs))
  BY LenProperties DEF Types, LayoutOK
<1>4. cols \in [W -> Nat]
  <2> HIDE DEF w, W
  <2> QED
    BY <1>1, <1>2
<1>5. ResizePanes(cols) /\ closed' = closed
  BY DEF HandleResize
<1> HIDE DEF W, cols
<1> QED
  BY <1>3, <1>4, <1>5, ResizePanesFollow DEF Follows

(* A key changes no width.                                                 *)
LEMMA TypeFollows ==
  ASSUME Types, GridInv, Type
  PROVE  QuietKept /\ \A i \in 1 .. Len(tabs) : Follows(i)
<1> DEFINE s == tabs[active].session
           y == WithCommand(s, [kind |-> "input"])
<1>1. /\ s \in 1 .. Len(sessions) /\ active \in 1 .. Len(tabs) /\ Len(tabs) \in Nat
      /\ DOMAIN sessions = 1 .. Len(sessions)
  BY TabInType, LenProperties DEF Types, LayoutOK, NetOK
<1>2. sessions' = [sessions EXCEPT ![s] = y] /\ tabs' = tabs /\ closed' = closed
  BY DEF Type
<1>3. sessions[s].tag = active
  BY <1>1 DEF GridInv, TabsTagged
<1>4. sessions[s].phase = "running" => \A w : GetsWidth(sessions[s], w) => GetsWidth(y, w)
  BY <1>1, CommandWidth
<1> HIDE DEF s, y
<1>5. QuietKept
  BY <1>1, <1>2, <1>3 DEF QuietKept
<1>6. \A i \in 1 .. Len(tabs) : Follows(i)
  BY <1>1, <1>2, <1>4, TabInType DEF Follows, TabFollows
<1> QED
  BY <1>5, <1>6

(* Ctrl+Alt+W leaves one session without a tab to follow, and resizes the  *)
(* other pane.                                                             *)
LEMMA CloseTabFollows ==
  ASSUME Types, GridInv, CloseTab
  PROVE  QuietKept /\ \A i \in 1 .. Len(tabs) : Follows(i)
<1> DEFINE own == tabs[active].session
           other == IF split.l = active THEN split.r ELSE split.l
           otherSession == tabs[other].session
           inSplit == split # NoSplit /\ active \in {split.l, split.r}
<1>1. /\ active \in 1 .. Len(tabs) /\ closed \in [1 .. Len(tabs) -> BOOLEAN] /\ Len(tabs) \in Nat
      /\ own \in 1 .. Len(sessions)
      /\ DOMAIN sessions = 1 .. Len(sessions) /\ DOMAIN tabs = 1 .. Len(tabs)
  BY TabInType, LenProperties DEF Types, LayoutOK, NetOK
<1>2. closed' = [closed EXCEPT ![active] = TRUE]
  BY DEF CloseTab
<1>3. \A i \in 1 .. Len(tabs) : ~closed'[i] => ~closed[i] /\ i # active
  BY <1>1, <1>2
<1>4. \A i \in 1 .. Len(tabs) :
        tabs[i].session \in 1 .. Len(sessions) /\ sessions[tabs[i].session].tag = i
  BY TabInType DEF GridInv, TabsTagged
<1>5. sessions[own].tag = active
  BY <1>1, <1>4
<1>6. CASE sessions' = [sessions EXCEPT ![own] = CloseCommand(own)] /\ UNCHANGED <<tabs, split>>
  <2> HIDE DEF own
  <2>1. QuietKept
    BY <1>1, <1>5, <1>6 DEF QuietKept
  <2>2. \A i \in 1 .. Len(tabs) : Follows(i)
    <3> SUFFICES ASSUME NEW i \in 1 .. Len(tabs), ~closed'[i]
                 PROVE  ~closed[i] /\ TabFollows(i)
      BY DEF Follows
    <3>1. ~closed[i] /\ tabs[i].session # own
      BY <1>3, <1>4, <1>5
    <3>2. sessions'[tabs[i].session] = sessions[tabs[i].session] /\ tabs' = tabs
      BY <1>1, <1>4, <1>6, <3>1
    <3> QED
      BY <3>1, <3>2 DEF TabFollows
  <2> QED
    BY <2>1, <2>2
<1>7. CASE /\ inSplit
           /\ tabs' = [tabs EXCEPT ![other].cols = term]
           /\ sessions' = [sessions EXCEPT ![own] = CloseCommand(own),
                                           ![otherSession] = ResizeCommand(otherSession, term)]
  <2>1. other \in 1 .. Len(tabs) /\ other # active
    BY <1>7 DEF Types, LayoutOK
  <2>2. otherSession \in 1 .. Len(sessions) /\ sessions[otherSession].tag = other
    BY <1>4, <2>1
  <2>3. own # otherSession
    BY <1>5, <2>1, <2>2
  <2>4. tabs'[other].cols = term /\ \A i \in 1 .. Len(tabs) : i # other => tabs'[i] = tabs[i]
    <3>1. tabs[other] \in TabType(Len(sessions))
      BY <2>1, TabInType
    <3> HIDE DEF other
    <3>2. tabs'[other] = [tabs[other] EXCEPT !.cols = term]
      BY <1>1, <1>7, <2>1
    <3> QED
      BY <1>1, <1>7, <2>1, <3>1, <3>2 DEF TabType
  <2> DEFINE r == ResizeCommand(otherSession, term)
  <2>5. /\ sessions'[otherSession] = r
        /\ \A s \in 1 .. Len(sessions) : s # own /\ s # otherSession => sessions'[s] = sessions[s]
    <3> HIDE DEF own, otherSession, r
    <3>1. sessions' = [sessions EXCEPT ![own] = CloseCommand(own), ![otherSession] = r]
      BY <1>7 DEF r
    <3> QED
      BY <1>1, <2>2, <2>3, <3>1
  <2>6. sessions[otherSession].phase = "running" => GetsWidth(r, term)
    BY <2>2, CommandWidth
  <2> HIDE DEF own, other, r
  <2>7. QuietKept
    BY <1>1, <1>5, <2>1, <2>2, <2>5 DEF QuietKept
  <2>8. \A i \in 1 .. Len(tabs) : Follows(i)
    <3> SUFFICES ASSUME NEW i \in 1 .. Len(tabs), ~closed'[i],
                        sessions[tabs[i].session].phase = "running"
                 PROVE  ~closed[i] /\ TabFollows(i)
      BY DEF Follows
    <3>1. ~closed[i] /\ tabs[i].session # own
      BY <1>3, <1>4, <1>5
    <3>2. CASE i = other
      BY <2>4, <2>5, <2>6, <3>1, <3>2 DEF TabFollows
    <3>3. CASE i # other
      <4>1. tabs[i].session # otherSession
        BY <1>4, <2>2, <3>3
      <4> QED
        BY <1>4, <2>4, <2>5, <3>1, <3>3, <4>1 DEF TabFollows
    <3> QED
      BY <3>2, <3>3
  <2> QED
    BY <2>7, <2>8
<1> QED
  BY <1>6, <1>7 DEF CloseTab

(* Every key that works on tabs.                                           *)
LEMMA TabKeyGrid ==
  ASSUME Types, GridInv, TabKey, UNCHANGED screen
  PROVE  GridInv'
<1>1. Kept
  BY TabKeyKeeps
<1>2. CASE SwitchTab \/ \E i \in 1 .. 9 : JumpTo(i)
  BY <1>1, <1>2, LeaveSplitFollows, FollowsIsEnough DEF SwitchTab, JumpTo
<1>3. CASE CloseTab
  BY <1>1, <1>3, CloseTabFollows, FollowsIsEnough
<1>4. CASE ToggleSplit
  BY <1>1, <1>4, ToggleSplitFollows, FollowsIsEnough
<1>5. CASE ToggleFocus
  BY <1>1, <1>5, SessionsStay, FollowsIsEnough DEF ToggleFocus
<1>6. CASE Type
  BY <1>1, <1>6, TypeFollows, FollowsIsEnough
<1> QED
  BY <1>2, <1>3, <1>4, <1>5, <1>6 DEF TabKey

(* What an event does to the tabs.                                         *)
LEMMA EventTabs ==
  ASSUME Types, HandleEvent
  PROVE  \A i \in 1 .. Len(tabs) : tabs'[i].cols = tabs[i].cols /\ (~closed'[i] => ~closed[i])
<1> DEFINE e == Head(events)
<1>1. \/ UNCHANGED <<tabs, closed>>
      \/ Fed(e) \/ TabEnds(e)
  BY DEF HandleEvent
<1>2. closed \in [1 .. Len(tabs) -> BOOLEAN] /\ DOMAIN tabs = 1 .. Len(tabs)
  BY LenProperties DEF Types, LayoutOK
<1> HIDE DEF e
<1>3. CASE Fed(e)
  <2> DEFINE piece == [session |-> e.session, n |-> e.n]
  <2>1. closed' = closed /\ tabs' = [tabs EXCEPT ![e.tag].fed = Append(@, piece)]
    BY <1>3 DEF Fed
  <2> HIDE DEF piece
  <2>2. \A i \in 1 .. Len(tabs) : tabs[i] \in TabType(Len(sessions))
    BY TabInType
  <2>3. \A i \in 1 .. Len(tabs) : tabs'[i].cols = tabs[i].cols
    BY <1>2, <2>1, <2>2 DEF TabType
  <2> QED
    BY <2>1, <2>3
<1>4. CASE TabEnds(e)
  BY <1>2, <1>4 DEF TabEnds
<1> QED
  BY <1>1, <1>3, <1>4

(* What is appended moves nothing.                                         *)
LEMMA AppendKeeps ==
  ASSUME NEW T, NEW q \in Seq(T), NEW x \in T
  PROVE  \A i \in 1 .. Len(q) : Append(q, x)[i] = q[i]
BY AppendProperties

(* A tab that is opened is not closed.                                     *)
LEMMA FalseIsBoolean == FALSE \in BOOLEAN
OBVIOUS

(* A new tab takes the width the PTY of its session was given, to which    *)
(* nothing has been sent.                                                  *)
LEMMA HandleResultGrid ==
  ASSUME Types, Routing, GridInv, HandleResult
  PROVE  GridInv'
<1> DEFINE r == Head(results)
           n == Len(tabs)
<1>1. results # << >> /\ sessions' = sessions
  BY DEF HandleResult
<1>2. /\ results \in Seq(0 .. Len(sessions)) /\ n \in Nat
      /\ tabs \in Seq(TabType(Len(sessions))) /\ closed \in [1 .. n -> BOOLEAN]
      /\ Len(results) \in Nat
  BY ResultsAreASequence DEF Types, NetOK, LayoutOK
<1>3. r = results[1] /\ Len(results) # 0 /\ r \in 0 .. Len(sessions)
  BY <1>1, <1>2
<1>4. CASE r = 0
  <2>1. tabs' = tabs /\ closed' = closed
    BY <1>4 DEF HandleResult
  <2> QED
    BY <1>1, <2>1 DEF GridInv, TabsTagged, QuietBefore, GridFollows
<1>5. CASE r # 0
  <2> DEFINE t == NewTab(r)
  <2>1. tabs' = Append(tabs, t) /\ closed' = Append(closed, FALSE)
    BY <1>5 DEF HandleResult
  <2>2. r \in 1 .. Len(sessions) /\ AttemptPending(r)
    BY <1>3, <1>5, ResultsAreASequence DEF Routing, ResultPending
  <2>3. t.session = r /\ t.cols = sessions[r].pty
    BY DEF NewTab
  <2>4. sessions[r].tag = n + 1 /\ sessions[r].commands = << >>
    <3>1. sessions[r].tag = n + 1
      BY <2>2 DEF AttemptPending
    <3> QED
      BY <1>2, <2>2, <3>1 DEF GridInv, QuietBefore
  <2>5. GetsWidth(sessions[r], t.cols)
    <3>1. DOMAIN sessions[r].commands = {}
      BY <2>4
    <3> QED
      BY <2>3, <3>1 DEF GetsWidth
  <2> HIDE DEF r, t, n
  <2>6. /\ Len(tabs') = n + 1 /\ tabs'[n + 1] = t
        /\ \A i \in 1 .. n : tabs'[i] = tabs[i]
    BY <1>2, <2>1 DEF n
  <2>7. \A i \in 1 .. n : closed'[i] = closed[i]
    <3>1. closed \in Seq(BOOLEAN) /\ Len(closed) = n
      BY <1>2, FunctionIsSeq
    <3>2. closed' = Append(closed, FALSE)
      BY <2>1
    <3>3. \A i \in 1 .. Len(closed) : Append(closed, FALSE)[i] = closed[i]
      BY <3>1, FalseIsBoolean, AppendKeeps, Zenon
    <3> QED
      BY <3>1, <3>2, <3>3, Zenon
  <2>8. \A i \in 1 .. n + 1 : i \in 1 .. n \/ i = n + 1
    BY <1>2
  <2>9. TabsTagged'
    BY <1>1, <2>3, <2>4, <2>6, <2>8 DEF GridInv, TabsTagged, n
  <2>10. QuietBefore'
    <3>1. \A s \in 1 .. Len(sessions) : sessions[s].tag \in Nat
      BY SessionInType
    <3> QED
      BY <1>1, <1>2, <2>6, <3>1 DEF GridInv, QuietBefore, n
  <2>11. \A i \in 1 .. n + 1 : GridFollows(i)'
    BY <1>1, <2>3, <2>5, <2>6, <2>7, <2>8 DEF GridInv, GridFollows, n
  <2> QED
    BY <2>6, <2>9, <2>10, <2>11 DEF GridInv
<1> QED
  BY <1>4, <1>5

(* An attempt has a queue without commands and no tab yet.                 *)
LEMMA StartAttemptGrid ==
  ASSUME Types, GridInv, StartAttempt
  PROVE  GridInv'
<1> DEFINE x == NewSession(Len(tabs) + 1, term)
<1>0. PICK n \in Nat : n = Len(sessions)
  BY ResultsAreASequence
<1>1. sessions' = Append(sessions, x) /\ tabs' = tabs /\ closed' = closed
  BY DEF StartAttempt
<1>2. x.commands = << >>
  BY DEF NewSession
<1> HIDE DEF x
<1>3. sessions \in Seq(SessionType)
  BY DEF Types, NetOK
<1>4. /\ Len(sessions') = n + 1 /\ sessions'[n + 1] = x
      /\ \A s \in 1 .. n : sessions'[s] = sessions[s]
  BY <1>0, <1>1, <1>3
<1>5. \A i \in 1 .. Len(tabs) : tabs[i].session \in 1 .. n
  BY <1>0, TabInType
<1>6. \A s \in 1 .. n + 1 : s \in 1 .. n \/ s = n + 1
  OBVIOUS
<1>7. TabsTagged'
  BY <1>1, <1>4, <1>5 DEF GridInv, TabsTagged
<1>8. QuietBefore'
  BY <1>0, <1>1, <1>2, <1>4, <1>6 DEF GridInv, QuietBefore
<1>9. \A i \in 1 .. Len(tabs') : GridFollows(i)'
  BY <1>1, <1>4, <1>5 DEF GridInv, GridFollows
<1> QED
  BY <1>7, <1>8, <1>9 DEF GridInv

(* A task that obeys a command, sends output or ends.                      *)
LEMMA TaskGrid ==
  ASSUME Types, Routing, GridInv, NEW s \in 1 .. Len(sessions), Task(s)
  PROVE  GridInv'
<1>1. /\ Len(sessions') = Len(sessions)
      /\ \A u \in 1 .. Len(sessions) : u # s => sessions'[u] = sessions[u]
      /\ sessions'[s].tag = sessions[s].tag
  BY TaskChanges
<1>2. tabs' = tabs /\ closed' = closed
  BY DEF Task, layout
<1>3. \A i \in 1 .. Len(tabs) : tabs[i].session \in 1 .. Len(sessions)
  BY TabInType
<1>4. TabsTagged'
  BY <1>1, <1>2, <1>3 DEF GridInv, TabsTagged
<1>5. QuietBefore'
  BY <1>1, <1>2, TaskWidths DEF GridInv, QuietBefore
<1>6. ASSUME NEW i \in 1 .. Len(tabs)
      PROVE  GridFollows(i)'
  <2>1. CASE tabs[i].session # s
    BY <1>1, <1>2, <1>3, <1>6, <2>1 DEF GridInv, GridFollows
  <2>2. CASE tabs[i].session = s
    <3>1. sessions[s].tag = i /\ Len(tabs) \in Nat
      BY <1>6, <2>2, ResultsAreASequence DEF GridInv, TabsTagged
    <3>2. sessions[s].phase # "connecting"
      BY <1>6, <3>1 DEF Routing, ConnectingUntold, UntoldPending, AttemptPending
    <3> QED
      BY <1>2, <1>6, <2>2, <3>2, TaskWidths DEF GridInv, GridFollows
  <2> QED
    BY <2>1, <2>2
<1> QED
  BY <1>2, <1>4, <1>5, <1>6 DEF GridInv

(* The tabs there are at the start have the width of the terminal.         *)
LEMMA InitGrid == Init => GridInv
<1> SUFFICES ASSUME Init PROVE GridInv
  OBVIOUS
<1>1. StartTabs \in Nat /\ StartWidth \in Nat
  BY StartAssumption, WidthAssumption
<1>2. Len(sessions) = StartTabs /\ Len(tabs) = StartTabs
  BY InitTypes
<1>3. ASSUME NEW s \in 1 .. StartTabs
      PROVE  /\ sessions[s].tag = s /\ sessions[s].commands = << >>
             /\ sessions[s].pty = StartWidth
             /\ tabs[s].session = s /\ tabs[s].cols = StartWidth
  BY DEF Init, NewSession
<1>4. \A s \in 1 .. StartTabs : GetsWidth(sessions[s], StartWidth)
  <2> SUFFICES ASSUME NEW s \in 1 .. StartTabs PROVE GetsWidth(sessions[s], StartWidth)
    OBVIOUS
  <2>1. DOMAIN sessions[s].commands = {}
    BY <1>3
  <2> QED
    BY <1>3, <2>1 DEF GetsWidth
<1> QED
  BY <1>2, <1>3, <1>4 DEF GridInv, TabsTagged, QuietBefore, GridFollows

(* Every arm and every task keeps grids and PTYs in step.                  *)
LEMMA StepGrid ==
  ASSUME Types, ActiveIsOpen, Routing, GridInv, [Next]_vars
  PROVE  GridInv'
<1>1. CASE \E s \in DOMAIN sessions : Task(s)
  BY <1>1, TaskGrid, LenProperties DEF Types, NetOK
<1>2. CASE HandleEvent
  BY <1>2, HandleEventKeeps, EventTabs, SessionsStay, FollowsIsEnough DEF HandleEvent
<1>3. CASE HandleResult
  BY <1>3, HandleResultGrid
<1>4. CASE (DialogEnter \/ DialogEscape \/ DialogEdit \/ OpenDialog) /\ UNCHANGED screen
  <2>1. CASE StartAttempt
    BY <2>1, StartAttemptGrid
  <2>2. CASE Kept /\ UNCHANGED <<sessions, tabs, closed>>
    BY <2>2, SessionsStay, FollowsIsEnough
  <2> QED
    BY <1>4, <2>1, <2>2, DialogKey DEF DialogEnter, DialogEscape, DialogEdit, OpenDialog, StartAttempt, net
<1>5. CASE TabKey /\ UNCHANGED screen
  BY <1>5, TabKeyGrid
<1>6. CASE HandleResize
  BY <1>6, HandleResizeKeeps, HandleResizeFollows, FollowsIsEnough
<1>7. CASE (Quit /\ UNCHANGED screen) \/ Render \/ (\E w \in Widths : WindowResized(w)) \/ UNCHANGED vars
  <2>1. UNCHANGED <<sessions, tabs, closed>>
    BY <1>7 DEF Quit, Render, WindowResized, vars, net, layout
  <2> QED
    BY <2>1 DEF GridInv, TabsTagged, QuietBefore, GridFollows
<1> QED
  BY <1>1, <1>2, <1>3, <1>4, <1>5, <1>6, <1>7 DEF Next, Loop, Key

(* The grid of an open tab is as wide as its PTY is or is about to be,     *)
(* however splits are made and left, tabs switched and closed, windows     *)
(* resized and attempts started in between: where core.resize is called, a *)
(* TabCommand::Resize of the same width goes to the same session           *)
(* (main.rs:965-969).                                                  *)
THEOREM GridsFollowPtys == Spec => []GridMatchesPty
<1> DEFINE I == Types /\ ActiveIsOpen /\ Routing /\ GridInv
<1>1. Init => I
  BY InitTypes, InitRouting, InitGrid
<1>2. I /\ [Next]_vars => I'
  BY StepTypes, StepRouting, StepGrid
<1>3. I => GridMatchesPty
  BY LenProperties DEF Types, LayoutOK, GridInv, GridFollows, GridMatchesPty
<1> QED
  BY <1>1, <1>2, <1>3, PTL DEF Spec

-----------------------------------------------------------------------------
(* Places on the screen.  While a resize waits nothing is said of widths,  *)
(* but the last to come brings the width the terminal has.                 *)
Fits(i) ==
  ~closed[i] =>
    /\ i = split.l => tabs[i].cols = SplitWidths(term).l
    /\ i = split.r => tabs[i].cols = SplitWidths(term).r
    /\ i \notin {split.l, split.r} /\ i <= StartTabs => tabs[i].cols = term

(* PanesFit, tab by tab.                                                   *)
LEMMA PanesFitIs ==
  ASSUME Types
  PROVE  PanesFit <=> (resizes = << >> => \A i \in 1 .. Len(tabs) : Fits(i))
BY LenProperties DEF Types, LayoutOK, PanesFit, Fits

(* The same in the next state.                                             *)
LEMMA PanesFitNext ==
  ASSUME Types', resizes' = << >> => \A i \in 1 .. Len(tabs') : Fits(i)'
  PROVE  PanesFit'
BY LenProperties DEF Types, LayoutOK, PanesFit, Fits

(* Steps that leave the widths, the split and the terminal as they are.    *)
LEMMA StillFits ==
  ASSUME Types, Types', PanesInv, UNCHANGED screen, Len(tabs') = Len(tabs),
         split'.l = split.l, split'.r = split.r,
         \A i \in 1 .. Len(tabs) : tabs'[i].cols = tabs[i].cols /\ (~closed'[i] => ~closed[i])
  PROVE  PanesInv'
<1>1. resizes' = resizes /\ term' = term
  BY DEF screen
<1>2. resizes = << >> => \A i \in 1 .. Len(tabs) : Fits(i)
  BY PanesFitIs DEF PanesInv
<1>3. PanesFit'
  BY <1>1, <1>2, PanesFitNext DEF Fits
<1> QED
  BY <1>1, <1>3 DEF PanesInv, ResizesEnd

(* After a split the panes have the full width.                            *)
LEMMA LeaveSplitFits ==
  ASSUME Types, Types', PanesInv, LeaveSplit, UNCHANGED screen, Len(tabs') = Len(tabs),
         \A i \in 1 .. Len(tabs) : ~closed'[i] => ~closed[i]
  PROVE  PanesInv'
<1>1. CASE split = NoSplit
  BY <1>1, StillFits DEF LeaveSplit
<1>2. CASE split # NoSplit
  <2> DEFINE W == {split.l, split.r}
             cols == [i \in W |-> term]
  <2>1. term \in Nat /\ W \in SUBSET (1 .. Len(tabs)) /\ Len(tabs) \in Nat
    BY <1>2, WidthAssumption, ResultsAreASequence DEF Types, LayoutOK, ScreenOK
  <2>2. cols \in [W -> Nat] /\ ResizePanes(cols) /\ split' = NoSplit
    BY <1>2, <2>1 DEF LeaveSplit
  <2>3. \A i \in 1 .. Len(tabs) : tabs'[i].cols = IF i \in W THEN term ELSE tabs[i].cols
    <3>1. \A i \in W : cols[i] = term
      OBVIOUS
    <3> HIDE DEF W, cols
    <3> QED
      BY <2>1, <2>2, <3>1, ResizePanesColumns
  <2>4. resizes' = resizes /\ term' = term
    BY DEF screen
  <2>5. resizes = << >> => \A i \in 1 .. Len(tabs) : Fits(i)
    BY PanesFitIs DEF PanesInv
  <2>6. split'.l = 0 /\ split'.r = 0
    BY <2>2 DEF NoSplit
  <2>7. ASSUME resizes' = << >>, NEW i \in 1 .. Len(tabs)
        PROVE  Fits(i)'
    BY <2>1, <2>3, <2>4, <2>5, <2>6, <2>7 DEF Fits
  <2>8. PanesFit'
    BY <2>7, PanesFitNext
  <2> QED
    BY <2>4, <2>8 DEF PanesInv, ResizesEnd
<1> QED
  BY <1>1, <1>2

(* In a split they have its two widths.                                    *)
LEMMA ToggleSplitFits ==
  ASSUME Types, Types', PanesInv, ToggleSplit, UNCHANGED screen, Len(tabs') = Len(tabs)
  PROVE  PanesInv'
<1> DEFINE partner == NextOpen(closed, active)
           w == SplitWidths(term)
           W == {active, partner}
           cols == [i \in W |-> IF i = active THEN w.l ELSE w.r]
<1>1. Len(tabs) \in Nat \ {0} /\ closed \in [1 .. Len(tabs) -> BOOLEAN] /\ active \in 1 .. Len(tabs)
  BY LenProperties DEF Types, LayoutOK
<1>2. partner \in 1 .. Len(tabs)
  BY <1>1, FunctionIsSeq, NextOpenIsOpen
<1>3. closed' = closed
  BY DEF ToggleSplit
<1>4. CASE LeaveSplit
  BY <1>3, <1>4, LeaveSplitFits
<1>5. CASE /\ CanSplit(partner, w)
           /\ split = NoSplit
           /\ ResizePanes(cols)
           /\ split' = [l |-> active, r |-> partner, focus |-> "left"]
  <2>1. w.l \in Nat /\ w.r \in Nat
    BY PaneWidths, WidthAssumption DEF Types, ScreenOK
  <2>2. split'.l = active /\ split'.r = partner /\ partner # active /\ split.l = 0 /\ split.r = 0
    BY <1>5 DEF CanSplit, NoSplit
  <2> HIDE DEF w, partner
  <2>3. W \in SUBSET (1 .. Len(tabs)) /\ cols \in [W -> Nat]
    BY <1>1, <1>2, <2>1
  <2>4. cols[active] = w.l /\ cols[partner] = w.r /\ active \in W /\ partner \in W
    BY <2>2
  <2>5. \A i \in 1 .. Len(tabs) : tabs'[i].cols = IF i \in W THEN cols[i] ELSE tabs[i].cols
    <3> HIDE DEF W, cols
    <3> QED
      BY <1>5, <2>3, ResizePanesColumns
  <2>6. resizes' = resizes /\ term' = term
    BY DEF screen
  <2>7. resizes = << >> => \A i \in 1 .. Len(tabs) : Fits(i)
    BY PanesFitIs DEF PanesInv
  <2>8. ASSUME resizes' = << >>, NEW i \in 1 .. Len(tabs), ~closed'[i]
        PROVE  Fits(i)'
    <3> HIDE DEF cols
    <3>1. CASE i = active
      BY <1>1, <2>2, <2>4, <2>5, <2>6, <3>1 DEF Fits, w
    <3>2. CASE i = partner
      BY <1>2, <2>2, <2>4, <2>5, <2>6, <3>2 DEF Fits, w
    <3>3. CASE i \notin W
      <4>1. i # active /\ i # partner /\ i # 0
        BY <1>1, <3>3
      <4>2. tabs'[i].cols = tabs[i].cols
        BY <2>5, <3>3
      <4> QED
        BY <1>3, <2>2, <2>6, <2>7, <2>8, <4>1, <4>2 DEF Fits
    <3> QED
      BY <3>1, <3>2, <3>3
  <2>9. PanesFit'
    <3>1. resizes' = << >> => \A i \in 1 .. Len(tabs') : Fits(i)'
      BY <2>8 DEF Fits
    <3> QED
      BY <3>1, PanesFitNext
  <2> QED
    BY <2>6, <2>9 DEF PanesInv, ResizesEnd
<1> QED
  BY <1>4, <1>5 DEF ToggleSplit

(* A tab closed in a split ends the split.                                 *)
LEMMA CloseTabFits ==
  ASSUME Types, Types', PanesInv, CloseTab, UNCHANGED screen, Len(tabs') = Len(tabs)
  PROVE  PanesInv'
<1> DEFINE other == IF split.l = active THEN split.r ELSE split.l
           inSplit == split # NoSplit /\ active \in {split.l, split.r}
<1>1. /\ active \in 1 .. Len(tabs) /\ Len(tabs) \in Nat /\ DOMAIN tabs = 1 .. Len(tabs)
      /\ closed \in [1 .. Len(tabs) -> BOOLEAN]
  BY LenProperties DEF Types, LayoutOK
<1>2. closed' = [closed EXCEPT ![active] = TRUE]
  BY DEF CloseTab
<1>3. \A i \in 1 .. Len(tabs) : ~closed'[i] => ~closed[i] /\ i # active
  BY <1>1, <1>2
<1>4. CASE UNCHANGED <<tabs, split>>
  BY <1>3, <1>4, StillFits
<1>5. CASE inSplit /\ tabs' = [tabs EXCEPT ![other].cols = term] /\ split' = NoSplit
  <2>1. /\ other \in 1 .. Len(tabs) /\ active \in {split.l, split.r}
        /\ {split.l, split.r} = {active, other}
    BY <1>5 DEF Types, LayoutOK
  <2>2. \A i \in 1 .. Len(tabs) : tabs'[i].cols = IF i = other THEN term ELSE tabs[i].cols
    <3>1. tabs[other] \in TabType(Len(sessions))
      BY <2>1, TabInType
    <3> HIDE DEF other
    <3>2. tabs'[other] = [tabs[other] EXCEPT !.cols = term]
      BY <1>1, <1>5, <2>1
    <3> QED
      BY <1>1, <1>5, <2>1, <3>1, <3>2 DEF TabType
  <2> HIDE DEF other
  <2>3. resizes' = resizes /\ term' = term
    BY DEF screen
  <2>4. resizes = << >> => \A i \in 1 .. Len(tabs) : Fits(i)
    BY PanesFitIs DEF PanesInv
  <2>5. split'.l = 0 /\ split'.r = 0
    BY <1>5 DEF NoSplit
  <2>6. ASSUME resizes' = << >>, NEW i \in 1 .. Len(tabs), ~closed'[i]
        PROVE  Fits(i)'
    <3>1. ~closed[i] /\ i # active /\ i # 0
      BY <1>1, <1>3, <2>6
    <3>2. CASE i = other
      BY <2>2, <2>3, <2>5, <3>1, <3>2 DEF Fits
    <3>3. CASE i # other
      <4>1. i \notin {split.l, split.r} /\ tabs'[i].cols = tabs[i].cols
        BY <2>1, <2>2, <3>1, <3>3
      <4> QED
        BY <2>3, <2>4, <2>5, <2>6, <3>1, <4>1 DEF Fits
    <3> QED
      BY <3>2, <3>3
  <2>7. PanesFit'
    <3>1. resizes' = << >> => \A i \in 1 .. Len(tabs') : Fits(i)'
      BY <2>6 DEF Fits
    <3> QED
      BY <3>1, PanesFitNext
  <2> QED
    BY <2>3, <2>7 DEF PanesInv, ResizesEnd
<1> QED
  BY <1>4, <1>5 DEF CloseTab

(* Every key that works on tabs.                                           *)
LEMMA TabKeyFits ==
  ASSUME Types, PanesInv, TabKey, UNCHANGED screen
  PROVE  PanesInv'
<1>1. Kept /\ Types' /\ Len(tabs') = Len(tabs)
  BY TabKeyKeeps DEF Kept
<1>2. CASE SwitchTab \/ \E i \in 1 .. 9 : JumpTo(i)
  BY <1>1, <1>2, LeaveSplitFits DEF SwitchTab, JumpTo
<1>3. CASE CloseTab
  BY <1>1, <1>3, CloseTabFits
<1>4. CASE ToggleSplit
  BY <1>1, <1>4, ToggleSplitFits
<1>5. CASE ToggleFocus
  <2>1. /\ split' = [split EXCEPT !.focus = IF @ = "left" THEN "right" ELSE "left"]
        /\ split # NoSplit /\ UNCHANGED <<tabs, closed>>
    BY <1>5 DEF ToggleFocus
  <2>2. split'.l = split.l /\ split'.r = split.r
    BY <2>1 DEF Types, LayoutOK
  <2> QED
    BY <1>1, <2>1, <2>2, StillFits
<1>6. CASE Type
  BY <1>1, <1>6, StillFits DEF Type
<1> QED
  BY <1>2, <1>3, <1>4, <1>5, <1>6 DEF TabKey

(* A resize that is the last to wait gives every open pane its place.      *)
LEMMA HandleResizeFits ==
  ASSUME Types, PanesInv, HandleResize
  PROVE  PanesInv'
<1> DEFINE h == Head(resizes)
           w == SplitWidths(h)
           W == {j \in DOMAIN tabs : ~closed[j]}
           Width(i) == IF i = split.l THEN w.l ELSE IF i = split.r THEN w.r ELSE h
           cols == [i \in W |-> Width(i)]
<1>1. /\ resizes # << >> /\ resizes \in Seq(Widths) /\ resizes' = Tail(resizes)
      /\ term' = term /\ split' = split /\ closed' = closed
      /\ resizes[Len(resizes)] = term
  BY DEF HandleResize, Types, ScreenOK, PanesInv, ResizesEnd
<1>2. /\ h \in Nat \ {0} /\ Len(resizes) \in Nat /\ Len(resizes) > 0
      /\ Len(resizes') = Len(resizes) - 1
      /\ \A k \in 1 .. Len(resizes) - 1 : resizes'[k] = resizes[k + 1]
  <2>1. h \in Widths /\ Len(resizes) \in Nat /\ Len(resizes) > 0
    BY <1>1
  <2>2. /\ Len(Tail(resizes)) = Len(resizes) - 1
        /\ \A k \in 1 .. Len(resizes) - 1 : Tail(resizes)[k] = resizes[k + 1]
    BY <1>1, HeadTailProperties
  <2> HIDE DEF h
  <2>3. h \in Nat \ {0}
    BY <2>1, WidthAssumption
  <2> QED
    BY <1>1, <2>1, <2>2, <2>3
<1>3. resizes' = << >> => h = term
  <2>1. resizes' = << >> => Len(resizes) = 1
    BY <1>2
  <2> QED
    BY <1>1, <2>1
<1>4. ResizesEnd'
  <2> SUFFICES ASSUME resizes' # << >>
               PROVE  resizes'[Len(resizes')] = term'
    BY DEF ResizesEnd
  <2>1. resizes' \in Seq(Widths)
    BY <1>1, HeadTailProperties
  <2>2. Len(resizes') # 0
    BY <2>1
  <2>3. Len(resizes) - 1 \in 1 .. Len(resizes) - 1 /\ Len(resizes) - 1 + 1 = Len(resizes)
    BY <1>2, <2>2
  <2> QED
    BY <1>1, <1>2, <2>3
<1>5. w.l \in Nat /\ w.r \in Nat
  BY <1>2, PaneWidths
<1>6. W \in SUBSET (1 .. Len(tabs)) /\ \A i \in 1 .. Len(tabs) : ~closed[i] => i \in W
  BY LenProperties DEF Types, LayoutOK
<1>7. cols \in [W -> Nat] /\ \A i \in W : cols[i] = Width(i)
  <2> HIDE DEF w, W, h
  <2> QED
    BY <1>2, <1>5
<1>8. ResizePanes(cols)
  BY DEF HandleResize
<1>9. Types' /\ Kept
  BY HandleResizeKeeps
<1> HIDE DEF W, cols, h
<1>10. \A i \in 1 .. Len(tabs) : ~closed'[i] => tabs'[i].cols = Width(i)
  BY <1>1, <1>6, <1>7, <1>8, ResizePanesColumns
<1>11. split.l # split.r \/ split = NoSplit
  BY DEF Types, LayoutOK
<1>12. split = NoSplit => split.l = 0 /\ split.r = 0
  BY DEF NoSplit
<1>13. ASSUME resizes' = << >>, NEW i \in 1 .. Len(tabs)
       PROVE  Fits(i)'
  <2>1. i # 0
    BY ResultsAreASequence
  <2> QED
    BY <1>1, <1>3, <1>10, <1>11, <1>12, <1>13, <2>1 DEF Fits
<1>14. PanesFit'
  BY <1>9, <1>13, PanesFitNext DEF Kept
<1> QED
  BY <1>4, <1>9, <1>14 DEF PanesInv, Kept

(* A tab that is opened comes behind those there were at the start.        *)
LEMMA HandleResultFits ==
  ASSUME Types, PanesInv, HandleResult
  PROVE  PanesInv'
<1> DEFINE r == Head(results)
           n == Len(tabs)
<1>1. UNCHANGED <<split, screen>> /\ Types'
  BY HandleResultKeepsTypes DEF HandleResult
<1>2. tabs \in Seq(TabType(Len(sessions))) /\ closed \in [1 .. n -> BOOLEAN] /\ n \in Nat
  BY LenProperties DEF Types, LayoutOK
<1>3. CASE tabs' = tabs /\ closed' = closed
  BY <1>1, <1>3, StillFits
<1>4. CASE tabs' = Append(tabs, NewTab(r)) /\ closed' = Append(closed, FALSE)
  <2> DEFINE t == NewTab(r)
  <2> HIDE DEF r, t, n
  <2>1. Len(tabs') = n + 1 /\ \A i \in 1 .. n : tabs'[i] = tabs[i]
    <3>1. tabs' = Append(tabs, t)
      BY <1>4 DEF t
    <3> QED
      BY <1>2, <3>1 DEF n
  <2>2. \A i \in 1 .. n : closed'[i] = closed[i]
    <3>1. closed \in Seq(BOOLEAN) /\ Len(closed) = n
      BY <1>2, FunctionIsSeq
    <3>2. closed' = Append(closed, FALSE)
      BY <1>4
    <3>3. \A i \in 1 .. Len(closed) : Append(closed, FALSE)[i] = closed[i]
      BY <3>1, FalseIsBoolean, AppendKeeps, Zenon
    <3> QED
      BY <3>1, <3>2, <3>3, Zenon
  <2>3. resizes' = resizes /\ term' = term /\ split' = split /\ StartTabs <= n /\ StartTabs \in Nat
    BY <1>1, StartAssumption DEF screen, PanesInv, n
  <2>4. resizes = << >> => \A i \in 1 .. n : Fits(i)
    BY PanesFitIs DEF PanesInv, n
  <2>5. ~(n + 1 <= StartTabs) /\ split.l # n + 1 /\ split.r # n + 1
    <3>1. ~(n + 1 <= StartTabs) /\ n + 1 # 0 /\ \A i \in 1 .. n : i # n + 1
      BY <1>2, <2>3
    <3>2. (split.l = 0 /\ split.r = 0) \/ (split.l \in 1 .. n /\ split.r \in 1 .. n)
      BY DEF Types, LayoutOK, NoSplit, n
    <3> QED
      BY <3>1, <3>2
  <2>6. ASSUME resizes' = << >>, NEW i \in 1 .. n + 1
        PROVE  Fits(i)'
    <3>1. i \in 1 .. n \/ i = n + 1
      BY <1>2
    <3>2. CASE i = n + 1
      BY <2>3, <2>5, <3>2 DEF Fits
    <3>3. CASE i \in 1 .. n
      BY <2>1, <2>2, <2>3, <2>4, <2>6, <3>3 DEF Fits
    <3> QED
      BY <3>1, <3>2, <3>3
  <2>7. PanesFit'
    BY <1>1, <2>1, <2>6, PanesFitNext
  <2>8. StartTabs <= Len(tabs')
    BY <1>2, <2>1, <2>3
  <2> QED
    BY <2>3, <2>7, <2>8 DEF PanesInv, ResizesEnd
<1> QED
  BY <1>3, <1>4 DEF HandleResult

(* The window is resized: the new width waits, as the last.                *)
LEMMA WindowResizedFits ==
  ASSUME Types, PanesInv, NEW w \in Widths, WindowResized(w)
  PROVE  PanesInv'
<1>1. /\ resizes' = Append(resizes, w) /\ term' = w /\ tabs' = tabs
      /\ resizes \in Seq(Widths)
  BY DEF WindowResized, layout, Types, ScreenOK
<1>2. PICK n \in Nat : n = Len(resizes)
  BY <1>1
<1>3. Len(resizes') = n + 1 /\ resizes'[n + 1] = w
  BY <1>1, <1>2
<1>4. resizes' # << >>
  BY <1>2, <1>3
<1> QED
  BY <1>1, <1>3, <1>4 DEF PanesInv, ResizesEnd, PanesFit

(* At the start every tab has the width of the terminal.                   *)
LEMMA InitPanes == Init => PanesInv
<1> SUFFICES ASSUME Init PROVE PanesInv
  OBVIOUS
<1>1. Len(tabs) = StartTabs /\ StartTabs \in Nat /\ resizes = << >> /\ Types
  BY InitTypes, StartAssumption DEF Init
<1>2. \A i \in 1 .. StartTabs : tabs[i].cols = StartWidth
  BY DEF Init
<1>3. term = StartWidth /\ split.l = 0 /\ split.r = 0
  BY DEF Init, NoSplit
<1>4. \A i \in 1 .. Len(tabs) : Fits(i)
  BY <1>1, <1>2, <1>3 DEF Fits
<1>5. PanesFit
  BY <1>1, <1>4, PanesFitIs
<1> QED
  BY <1>1, <1>5 DEF PanesInv, ResizesEnd

(* Every arm and every task keeps what is drawn as wide as its place.      *)
LEMMA StepPanes ==
  ASSUME Types, ActiveIsOpen, PanesInv, [Next]_vars
  PROVE  PanesInv'
<1>1. Types'
  BY StepTypes
<1>2. CASE UNCHANGED <<tabs, closed, split, screen>>
  BY <1>1, <1>2, StillFits
<1>3. CASE \E s \in DOMAIN sessions : Task(s)
  BY <1>2, <1>3 DEF Task, layout
<1>4. CASE HandleEvent
  <2>1. Len(tabs') = Len(tabs) /\ UNCHANGED <<split, screen>>
    BY <1>4, HandleEventKeeps DEF HandleEvent, Kept
  <2> QED
    BY <1>1, <1>4, <2>1, EventTabs, StillFits
<1>5. CASE HandleResult
  BY <1>5, HandleResultFits
<1>6. CASE (DialogEnter \/ DialogEscape \/ DialogEdit \/ OpenDialog) /\ UNCHANGED screen
  <2>1. UNCHANGED <<tabs, closed, split, screen>>
    BY <1>6 DEF DialogEnter, DialogEscape, DialogEdit, OpenDialog
  <2> QED
    BY <1>2, <2>1
<1>7. CASE TabKey /\ UNCHANGED screen
  BY <1>7, TabKeyFits
<1>8. CASE HandleResize
  BY <1>8, HandleResizeFits
<1>9. CASE (Quit /\ UNCHANGED screen) \/ Render \/ UNCHANGED vars
  BY <1>2, <1>9 DEF Quit, Render, vars, layout
<1>10. CASE \E w \in Widths : WindowResized(w)
  BY <1>10, WindowResizedFits
<1> QED
  BY <1>3, <1>4, <1>5, <1>6, <1>7, <1>8, <1>9, <1>10 DEF Next, Loop, Key

(* README.md:41-42: when no resize waits to be handled, each pane of the   *)
(* split has the width of its place, and every other tab of the start that *)
(* is open the whole width, for every sequence of splits, closed tabs,     *)
(* finished attempts and window resizes, and for windows too narrow to be  *)
(* split too.                                                              *)
THEOREM PanesFillTheirPlaces == Spec => []PanesFit
<1> DEFINE I == Types /\ ActiveIsOpen /\ PanesInv
<1>1. Init => I
  BY InitTypes, InitPanes
<1>2. I /\ [Next]_vars => I'
  BY StepTypes, StepPanes
<1>3. I => PanesFit
  BY DEF PanesInv
<1> QED
  BY <1>1, <1>2, <1>3, PTL DEF Spec

-----------------------------------------------------------------------------
(* Output of session s that waits in the queue of events.                  *)
Waits(s, k) == events[k].session = s /\ events[k].kind = "data"

(* The first f pieces of the output of s have left the queue; the others   *)
(* are in it.                                                              *)
Pending(s, f) ==
  /\ f \in 0 .. sessions[s].sent
  /\ \A k \in 1 .. Len(events) : Waits(s, k) => events[k].n \in f + 1 .. sessions[s].sent
  /\ \A m \in f + 1 .. sessions[s].sent : \E k \in 1 .. Len(events) : Waits(s, k) /\ events[k].n = m
  /\ \A j, k \in 1 .. Len(events) :
       Waits(s, j) /\ Waits(s, k) /\ j < k => events[j].n < events[k].n

(* Tab i has been fed the last of the first f pieces; all of them, if no   *)
(* tab is ever opened for a session that already speaks.                   *)
FedUpTo(i, f) ==
  LET fed == tabs[i].fed
  IN /\ Len(fed) <= f
     /\ "new" \notin Keys => Len(fed) = f
     /\ \A k \in 1 .. Len(fed) : fed[k] = [session |-> tabs[i].session, n |-> f - Len(fed) + k]

Flows(s, f) ==
  /\ Pending(s, f)
  /\ \A i \in 1 .. Len(tabs) : tabs[i].session = s /\ ~closed[i] => FedUpTo(i, f)

NoAttempts == "new" \notin Keys => ~dialog /\ ~connecting

OutputInv ==
  /\ NoAttempts
  /\ \A s \in 1 .. Len(sessions) : \E f \in Nat : Flows(s, f)

(* No close waits for the task of session x.                               *)
NoClose(x) == \A k \in 1 .. Len(x.commands) : x.commands[k].kind # "close"

(* The news that the session of tab i has ended waits in the queue.        *)
NewsQueued(i) == \E k \in 1 .. Len(events) : events[k].tag = i /\ events[k].kind = "closed"

EndsInv ==
  \A i \in 1 .. Len(tabs) : ~closed[i] =>
    /\ NoClose(sessions[tabs[i].session])
    /\ "new" \notin Keys /\ sessions[tabs[i].session].phase = "over" => NewsQueued(i)

-----------------------------------------------------------------------------
(* The fields of a queued event, and its tab.                              *)
LEMMA QueuedEvent ==
  ASSUME Types, Routing, GridInv, NEW k \in 1 .. Len(events), NEW i \in 1 .. Len(tabs)
  PROVE  /\ events[k].session \in 1 .. Len(sessions)
         /\ events[k].kind \in {"data", "closed"} /\ events[k].n \in 0 .. MaxData
         /\ events[k].tag = i <=> events[k].session = tabs[i].session
<1>1. events[k] \in EventType(Len(sessions))
  BY ElementOfSeq DEF Types, NetOK
<1>2. events[k].tag = sessions[events[k].session].tag
  BY DEF Routing, EventsTagged
<1>3. sessions[tabs[i].session].tag = i
  BY DEF GridInv, TabsTagged
<1>4. events[k].tag = i => events[k].session = tabs[i].session
  BY RoutingIsEnough, LenProperties DEF EventsReachTheirTab, Types, NetOK, LayoutOK
<1> QED
  BY <1>1, <1>2, <1>3, <1>4 DEF EventType

(* The pieces a tab was fed are a sequence.                                *)
LEMMA FedTypes ==
  ASSUME Types, NEW i \in 1 .. Len(tabs)
  PROVE  Len(tabs[i].fed) \in Nat /\ DOMAIN tabs[i].fed = 1 .. Len(tabs[i].fed)
<1>1. tabs[i].fed \in Seq([session : 1 .. Len(sessions), n : 1 .. MaxData])
  BY TabInType DEF TabType
<1> QED
  BY <1>1

(* What is queued for an open tab goes on where its own pieces end.        *)
LEMMA FlowArrives ==
  ASSUME Types, Routing, GridInv, NEW i \in 1 .. Len(tabs), ~closed[i],
         NEW f \in Nat, Flows(tabs[i].session, f)
  PROVE  /\ f - Len(tabs[i].fed) \in 0 .. sessions[tabs[i].session].sent
         /\ Arrives(i, f - Len(tabs[i].fed))
<1> DEFINE s == tabs[i].session
           fed == tabs[i].fed
           queued == {k \in DOMAIN events : events[k].tag = i /\ events[k].kind = "data"}
<1>1. s \in 1 .. Len(sessions) /\ sessions[s].sent \in Nat
  BY TabInType, SessionInType
<1>2. Len(fed) \in Nat /\ DOMAIN fed = 1 .. Len(fed) /\ DOMAIN events = 1 .. Len(events)
  BY FedTypes, LenProperties DEF Types, NetOK
<1>3. Pending(s, f) /\ FedUpTo(i, f)
  BY DEF Flows
<1> DEFINE n == f - Len(fed)
<1>4. f <= sessions[s].sent /\ n \in 0 .. sessions[s].sent /\ n + Len(fed) = f
  BY <1>1, <1>2, <1>3 DEF Pending, FedUpTo
<1>5. \A k \in DOMAIN fed : fed[k] = [session |-> s, n |-> n + k]
  BY <1>2, <1>3 DEF FedUpTo
<1>6. \A k \in 1 .. Len(events) : k \in queued <=> Waits(s, k)
  BY <1>2, QueuedEvent DEF Waits
<1>7. queued \subseteq 1 .. Len(events)
  BY <1>2
<1> HIDE DEF queued, n, fed, s
<1>8. {events[k].n : k \in queued} = f + 1 .. sessions[s].sent
  BY <1>3, <1>6, <1>7 DEF Pending
<1>9. /\ \A k \in queued : events[k].session = s
      /\ \A j, k \in queued : j < k => events[j].n < events[k].n
  BY <1>3, <1>6, <1>7 DEF Pending, Waits
<1>10. Arrives(i, n)
  BY <1>4, <1>5, <1>8, <1>9 DEF Arrives, s, fed, queued
<1> QED
  BY <1>4, <1>10 DEF n, s, fed

(* The flows say that output is in order and, without tabs opened later,   *)
(* complete.                                                               *)
LEMMA OutputInvIsEnough ==
  ASSUME Types, Routing, GridInv, OutputInv
  PROVE  OutputInOrder /\ ("new" \notin Keys => OutputComplete)
<1>1. DOMAIN tabs = 1 .. Len(tabs)
  BY LenProperties DEF Types, LayoutOK
<1>2. ASSUME NEW i \in 1 .. Len(tabs), ~closed[i]
      PROVE  /\ \E n \in 0 .. sessions[tabs[i].session].sent : Arrives(i, n)
             /\ "new" \notin Keys => Arrives(i, 0)
  <2>1. PICK f \in Nat : Flows(tabs[i].session, f)
    BY TabInType DEF OutputInv
  <2>2. /\ f - Len(tabs[i].fed) \in 0 .. sessions[tabs[i].session].sent
        /\ Arrives(i, f - Len(tabs[i].fed))
    BY <1>2, <2>1, FlowArrives
  <2>3. "new" \notin Keys => f - Len(tabs[i].fed) = 0
    <3>1. FedUpTo(i, f)
      BY <1>2, <2>1 DEF Flows
    <3> QED
      BY <3>1, FedTypes DEF FedUpTo
  <2> QED
    BY <2>2, <2>3
<1> QED
  BY <1>1, <1>2 DEF OutputInOrder, OutputComplete

(* A tab whose task is over has the news in the queue.                     *)
LEMMA EndsInvIsEnough ==
  ASSUME Types, EndsInv, "new" \notin Keys
  PROVE  NoDeadTab
<1>1. DOMAIN tabs = 1 .. Len(tabs) /\ DOMAIN events = 1 .. Len(events)
  BY LenProperties DEF Types, LayoutOK, NetOK
<1> QED
  BY <1>1 DEF NoDeadTab, EndsInv, NewsQueued

-----------------------------------------------------------------------------
(* Steps of the loop in which no output moves.                             *)
SentKept == \A s \in 1 .. Len(sessions) : sessions'[s].sent = sessions[s].sent
FedKept ==
  \A i \in 1 .. Len(tabs) : tabs'[i].fed = tabs[i].fed /\ (~closed'[i] => ~closed[i])
ClosesKept ==
  \A i \in 1 .. Len(tabs) :
    ~closed'[i] /\ NoClose(sessions[tabs[i].session]) => NoClose(sessions'[tabs[i].session])

Still == SentKept /\ FedKept /\ ClosesKept

(* A step that moves no output changes no flow.                            *)
LEMMA StillFlows ==
  ASSUME Types, OutputInv, Kept, Still, UNCHANGED events, NoAttempts'
  PROVE  OutputInv'
<1> SUFFICES ASSUME NEW s \in 1 .. Len(sessions)
             PROVE  \E f \in Nat : Flows(s, f)'
  BY DEF OutputInv, Kept
<1>1. PICK f \in Nat : Flows(s, f)
  BY DEF OutputInv
<1>2. Pending(s, f)'
  BY <1>1 DEF Flows, Pending, Waits, Still, SentKept
<1>3. ASSUME NEW i \in 1 .. Len(tabs), tabs'[i].session = s, ~closed'[i]
      PROVE  FedUpTo(i, f)'
  BY <1>1, <1>3 DEF Flows, FedUpTo, Kept, Still, FedKept
<1>4. Flows(s, f)'
  BY <1>2, <1>3 DEF Flows, Kept
<1> QED
  BY <1>4

(* Nor does it lose news of an end.                                        *)
LEMMA StillEnds ==
  ASSUME Types, EndsInv, Kept, Still, UNCHANGED events
  PROVE  EndsInv'
<1> SUFFICES ASSUME NEW i \in 1 .. Len(tabs), ~closed'[i]
             PROVE  /\ NoClose(sessions'[tabs'[i].session])
                    /\ "new" \notin Keys /\ sessions'[tabs'[i].session].phase = "over" => NewsQueued(i)'
  BY DEF EndsInv, Kept, NoClose
<1>1. tabs'[i].session = tabs[i].session /\ tabs[i].session \in 1 .. Len(sessions) /\ ~closed[i]
  BY TabInType DEF Kept, Still, FedKept
<1>2. NoClose(sessions'[tabs'[i].session])
  BY <1>1 DEF EndsInv, Still, ClosesKept
<1>3. sessions'[tabs'[i].session].phase = sessions[tabs[i].session].phase
  BY <1>1 DEF Kept, SameRoute
<1> QED
  BY <1>1, <1>2, <1>3 DEF EndsInv, NewsQueued

(* Sending a command moves no output; only a close is a close.             *)
LEMMA CommandStill ==
  ASSUME Types, NEW s \in 1 .. Len(sessions)
  PROVE  /\ \A w \in Nat : /\ ResizeCommand(s, w).sent = sessions[s].sent
                           /\ NoClose(sessions[s]) => NoClose(ResizeCommand(s, w))
         /\ CloseCommand(s).sent = sessions[s].sent
         /\ WithCommand(s, [kind |-> "input"]).sent = sessions[s].sent
         /\ NoClose(sessions[s]) => NoClose(WithCommand(s, [kind |-> "input"]))
<1> DEFINE x == sessions[s]
<1>1. x \in SessionType /\ x.commands \in Seq(Commands)
  BY SessionInType DEF SessionType
<1>2. ASSUME NEW c \in Commands
      PROVE  /\ WithCommand(s, c).sent = x.sent
             /\ NoClose(x) /\ c.kind # "close" => NoClose(WithCommand(s, c))
  <2>1. CASE WithCommand(s, c) = x
    BY <2>1 DEF NoClose
  <2>2. CASE WithCommand(s, c) = [x EXCEPT !.commands = Append(x.commands, c)]
    <3> DEFINE y == WithCommand(s, c)
    <3>1. y.sent = x.sent /\ y.commands = Append(x.commands, c)
      <4> HIDE DEF x
      <4> QED
        BY <1>1, <2>2 DEF SessionType
    <3> HIDE DEF x, y
    <3>2. PICK n \in Nat : n = Len(x.commands)
      BY <1>1
    <3>3. /\ Len(y.commands) = n + 1 /\ y.commands[n + 1] = c
          /\ \A k \in 1 .. n : y.commands[k] = x.commands[k]
      BY <1>1, <1>2, <3>1, <3>2, AppendProperties
    <3>4. \A k \in 1 .. n + 1 : k \in 1 .. n \/ k = n + 1
      BY <3>2
    <3> QED
      BY <3>1, <3>2, <3>3, <3>4 DEF NoClose, y
  <2> QED
    BY <2>1, <2>2 DEF WithCommand
<1>3. /\ \A w \in Nat : [kind |-> "resize", cols |-> w] \in Commands
      /\ [kind |-> "close"] \in Commands /\ [kind |-> "input"] \in Commands
  BY DEF Commands
<1> HIDE DEF x
<1>4. ASSUME NEW w \in Nat
      PROVE  /\ ResizeCommand(s, w).sent = x.sent
             /\ NoClose(x) => NoClose(ResizeCommand(s, w))
  <2> DEFINE c == [kind |-> "resize", cols |-> w]
  <2>1. c \in Commands /\ c.kind # "close"
    BY <1>3
  <2> HIDE DEF c
  <2>2. WithCommand(s, c).sent = x.sent /\ (NoClose(x) => NoClose(WithCommand(s, c)))
    BY <1>2, <2>1
  <2> QED
    BY <2>2 DEF ResizeCommand, c
<1>5. /\ WithCommand(s, [kind |-> "input"]).sent = x.sent
      /\ NoClose(x) => NoClose(WithCommand(s, [kind |-> "input"]))
  <2> DEFINE c == [kind |-> "input"]
  <2>1. c \in Commands /\ c.kind # "close"
    BY <1>3
  <2> HIDE DEF c
  <2>2. WithCommand(s, c).sent = x.sent /\ (NoClose(x) => NoClose(WithCommand(s, c)))
    BY <1>2, <2>1
  <2> QED
    BY <2>2 DEF c
<1> QED
  BY <1>2, <1>3, <1>4, <1>5 DEF CloseCommand, x

(* A resize moves no output.                                               *)
LEMMA ResizePanesStill ==
  ASSUME Types, NEW W \in SUBSET (1 .. Len(tabs)), NEW cols \in [W -> Nat], ResizePanes(cols),
         \A i \in 1 .. Len(tabs) : ~closed'[i] => ~closed[i]
  PROVE  Still
<1>1. \A i \in 1 .. Len(tabs) : tabs[i] \in TabType(Len(sessions)) /\ tabs[i].session \in 1 .. Len(sessions)
  BY TabInType
<1>2. DOMAIN tabs = 1 .. Len(tabs) /\ DOMAIN sessions = 1 .. Len(sessions)
  BY LenProperties DEF Types, LayoutOK, NetOK
<1>3. \A i \in 1 .. Len(tabs) : tabs'[i].fed = tabs[i].fed
  <2> SUFFICES ASSUME NEW i \in 1 .. Len(tabs) PROVE tabs'[i].fed = tabs[i].fed
    OBVIOUS
  <2>1. tabs'[i] = IF i \in W THEN [tabs[i] EXCEPT !.cols = cols[i]] ELSE tabs[i]
    BY <1>2 DEF ResizePanes
  <2> QED
    BY <1>1, <2>1 DEF TabType
<1>4. ASSUME NEW s \in 1 .. Len(sessions)
      PROVE  \/ sessions'[s] = sessions[s]
             \/ \E w \in Nat : sessions'[s] = ResizeCommand(s, w)
  <2> DEFINE own == {i \in W : tabs[i].session = s}
             i0 == CHOOSE i \in DOMAIN cols : tabs[i].session = s
  <2>1. DOMAIN cols = W
    OBVIOUS
  <2>2. (\E i \in W : tabs[i].session = s) => i0 \in W
    BY <2>1
  <2>3. sessions'[s] = IF \E i \in W : tabs[i].session = s THEN ResizeCommand(s, cols[i0]) ELSE sessions[s]
    BY <1>2, <2>1 DEF ResizePanes
  <2> QED
    BY <2>2, <2>3
<1>5. ASSUME NEW s \in 1 .. Len(sessions)
      PROVE  /\ sessions'[s].sent = sessions[s].sent
             /\ NoClose(sessions[s]) => NoClose(sessions'[s])
  BY <1>4, CommandStill
<1> QED
  BY <1>1, <1>3, <1>5 DEF Still, SentKept, FedKept, ClosesKept

(* Nor does the end of a split,                                            *)
LEMMA LeaveSplitStill ==
  ASSUME Types, LeaveSplit, \A i \in 1 .. Len(tabs) : ~closed'[i] => ~closed[i]
  PROVE  Still
<1>1. CASE split = NoSplit
  BY <1>1 DEF LeaveSplit, Still, SentKept, FedKept, ClosesKept
<1>2. CASE split # NoSplit
  <2> DEFINE W == {split.l, split.r}
             cols == [i \in W |-> term]
  <2>1. term \in Nat /\ W \in SUBSET (1 .. Len(tabs))
    BY <1>2, WidthAssumption DEF Types, LayoutOK, ScreenOK
  <2>2. cols \in [W -> Nat] /\ ResizePanes(cols)
    BY <1>2, <2>1 DEF LeaveSplit
  <2> HIDE DEF W, cols
  <2> QED
    BY <2>1, <2>2, ResizePanesStill
<1> QED
  BY <1>1, <1>2

(* or a split,                                                             *)
LEMMA ToggleSplitStill ==
  ASSUME Types, ToggleSplit
  PROVE  Still
<1> DEFINE partner == NextOpen(closed, active)
           w == SplitWidths(term)
           W == {active, partner}
           cols == [i \in W |-> IF i = active THEN w.l ELSE w.r]
<1>1. Len(tabs) \in Nat \ {0} /\ closed \in [1 .. Len(tabs) -> BOOLEAN] /\ active \in 1 .. Len(tabs)
  BY LenProperties DEF Types, LayoutOK
<1>2. partner \in 1 .. Len(tabs)
  BY <1>1, FunctionIsSeq, NextOpenIsOpen
<1>3. closed' = closed
  BY DEF ToggleSplit
<1>4. CASE LeaveSplit
  BY <1>3, <1>4, LeaveSplitStill
<1>5. CASE ResizePanes(cols)
  <2>1. w.l \in Nat /\ w.r \in Nat
    BY PaneWidths, WidthAssumption DEF Types, ScreenOK
  <2> HIDE DEF w, partner
  <2>2. W \in SUBSET (1 .. Len(tabs)) /\ cols \in [W -> Nat]
    BY <1>1, <1>2, <2>1
  <2> HIDE DEF W, cols
  <2> QED
    BY <1>3, <1>5, <2>2, ResizePanesStill
<1> QED
  BY <1>4, <1>5 DEF ToggleSplit

(* or a resize of the window,                                              *)
LEMMA HandleResizeStill ==
  ASSUME Types, HandleResize
  PROVE  Still
<1> DEFINE w == SplitWidths(Head(resizes))
           W == {j \in DOMAIN tabs : ~closed[j]}
           Width(i) == IF i = split.l THEN w.l ELSE IF i = split.r THEN w.r ELSE Head(resizes)
           cols == [i \in W |-> Width(i)]
<1>1. Head(resizes) \in Nat \ {0}
  <2>1. resizes # << >> /\ resizes \in Seq(Widths)
    BY DEF HandleResize, Types, ScreenOK
  <2> QED
    BY <2>1, HeadTailProperties, WidthAssumption
<1>2. w.l \in Nat /\ w.r \in Nat
  BY <1>1, PaneWidths
<1>3. W \in SUBSET (1 .. Len(tabs))
  BY LenProperties DEF Types, LayoutOK
<1>4. cols \in [W -> Nat]
  <2> HIDE DEF w, W
  <2> QED
    BY <1>1, <1>2
<1>5. ResizePanes(cols) /\ closed' = closed
  BY DEF HandleResize
<1> HIDE DEF W, cols
<1> QED
  BY <1>3, <1>4, <1>5, ResizePanesStill

(* or a key for a session,                                                 *)
LEMMA TypeStill ==
  ASSUME Types, Type
  PROVE  Still
<1> DEFINE s == tabs[active].session
           y == WithCommand(s, [kind |-> "input"])
<1>1. s \in 1 .. Len(sessions) /\ DOMAIN sessions = 1 .. Len(sessions)
  BY TabInType, LenProperties DEF Types, LayoutOK, NetOK
<1>2. sessions' = [sessions EXCEPT ![s] = y] /\ tabs' = tabs /\ closed' = closed
  BY DEF Type
<1>3. y.sent = sessions[s].sent /\ (NoClose(sessions[s]) => NoClose(y))
  BY <1>1, CommandStill
<1> HIDE DEF s, y
<1>4. \A u \in 1 .. Len(sessions) :
        /\ sessions'[u].sent = sessions[u].sent
        /\ NoClose(sessions[u]) => NoClose(sessions'[u])
  BY <1>1, <1>2, <1>3
<1> QED
  BY <1>2, <1>4, TabInType DEF Still, SentKept, FedKept, ClosesKept

(* Ctrl+Alt+W sends a close to the task of the tab it closes.              *)
LEMMA CloseTabStill ==
  ASSUME Types, GridInv, CloseTab
  PROVE  Still
<1> DEFINE own == tabs[active].session
           other == IF split.l = active THEN split.r ELSE split.l
           otherSession == tabs[other].session
           inSplit == split # NoSplit /\ active \in {split.l, split.r}
<1>1. /\ active \in 1 .. Len(tabs) /\ closed \in [1 .. Len(tabs) -> BOOLEAN] /\ Len(tabs) \in Nat
      /\ own \in 1 .. Len(sessions)
      /\ DOMAIN sessions = 1 .. Len(sessions) /\ DOMAIN tabs = 1 .. Len(tabs)
  BY TabInType, LenProperties DEF Types, LayoutOK, NetOK
<1>2. closed' = [closed EXCEPT ![active] = TRUE]
  BY DEF CloseTab
<1>3. \A i \in 1 .. Len(tabs) : ~closed'[i] => ~closed[i] /\ i # active
  BY <1>1, <1>2
<1>4. \A i \in 1 .. Len(tabs) :
        tabs[i].session \in 1 .. Len(sessions) /\ sessions[tabs[i].session].tag = i
  BY TabInType DEF GridInv, TabsTagged
<1>5. sessions[own].tag = active
  BY <1>1, <1>4
<1> DEFINE c == CloseCommand(own)
<1>6. c.sent = sessions[own].sent
  BY <1>1, CommandStill
<1> HIDE DEF c
<1>7. ASSUME \A i \in 1 .. Len(tabs) : tabs'[i].fed = tabs[i].fed,
             \A s \in 1 .. Len(sessions) :
               /\ sessions'[s].sent = sessions[s].sent
               /\ s # own /\ NoClose(sessions[s]) => NoClose(sessions'[s])
      PROVE  Still
  <2> HIDE DEF own
  <2>1. \A i \in 1 .. Len(tabs) : ~closed'[i] => tabs[i].session # own
    BY <1>3, <1>4, <1>5
  <2> QED
    BY <1>3, <1>4, <1>7, <2>1 DEF Still, SentKept, FedKept, ClosesKept
<1>8. CASE sessions' = [sessions EXCEPT ![own] = c] /\ UNCHANGED <<tabs, split>>
  <2> HIDE DEF own
  <2>1. \A s \in 1 .. Len(sessions) :
          /\ sessions'[s].sent = sessions[s].sent
          /\ s # own => sessions'[s] = sessions[s]
    BY <1>1, <1>6, <1>8
  <2> QED
    BY <1>7, <1>8, <2>1
<1>9. CASE /\ inSplit
           /\ tabs' = [tabs EXCEPT ![other].cols = term]
           /\ sessions' = [sessions EXCEPT ![own] = c,
                                           ![otherSession] = ResizeCommand(otherSession, term)]
  <2>1. other \in 1 .. Len(tabs) /\ other # active
    BY <1>9 DEF Types, LayoutOK
  <2>2. otherSession \in 1 .. Len(sessions) /\ own # otherSession
    BY <1>4, <1>5, <2>1
  <2>3. \A i \in 1 .. Len(tabs) : tabs'[i].fed = tabs[i].fed
    <3> HIDE DEF other
    <3>1. \A i \in 1 .. Len(tabs) : tabs[i] \in TabType(Len(sessions))
      BY TabInType
    <3> QED
      BY <1>1, <1>9, <3>1 DEF TabType
  <2> DEFINE r == ResizeCommand(otherSession, term)
  <2>4. r.sent = sessions[otherSession].sent /\ (NoClose(sessions[otherSession]) => NoClose(r))
    <3>1. term \in Nat
      BY WidthAssumption DEF Types, ScreenOK
    <3> QED
      BY <2>2, <3>1, CommandStill
  <2>5. \A s \in 1 .. Len(sessions) :
          /\ sessions'[s].sent = sessions[s].sent
          /\ s # own /\ NoClose(sessions[s]) => NoClose(sessions'[s])
    <3> HIDE DEF own, otherSession, r
    <3>1. sessions' = [sessions EXCEPT ![own] = c, ![otherSession] = r]
      BY <1>9 DEF r
    <3>2. \A s \in 1 .. Len(sessions) :
            sessions'[s] = IF s = otherSession THEN r ELSE IF s = own THEN c ELSE sessions[s]
      BY <1>1, <2>2, <3>1
    <3> QED
      BY <1>6, <2>4, <3>2
  <2> QED
    BY <1>7, <2>3, <2>5
<1> QED
  BY <1>8, <1>9 DEF CloseTab, c

(* or a key for the tabs.                                                  *)
LEMMA TabKeyStill ==
  ASSUME Types, GridInv, TabKey
  PROVE  Still
<1>1. CASE SwitchTab \/ \E i \in 1 .. 9 : JumpTo(i)
  BY <1>1, LeaveSplitStill DEF SwitchTab, JumpTo
<1>2. CASE ToggleFocus
  BY <1>2 DEF ToggleFocus, Still, SentKept, FedKept, ClosesKept
<1> QED
  BY <1>1, <1>2, CloseTabStill, ToggleSplitStill, TypeStill DEF TabKey

-----------------------------------------------------------------------------
(* The tasks.                                                              *)

(* A task sends its next piece of output, or news of its end, or nothing.  *)
LEMMA TaskOutput ==
  ASSUME Types, NEW s \in 1 .. Len(sessions), Task(s)
  PROVE  \/ /\ sessions'[s].sent = sessions[s].sent + 1
            /\ events' = Append(events, Event(s, "data", sessions[s].sent + 1))
         \/ /\ sessions'[s].sent = sessions[s].sent
            /\ events' = events \/ events' = Append(events, Event(s, "closed", 0))
<1> DEFINE x == sessions[s]
           y == sessions'[s]
<1>1. x \in SessionType /\ sessions \in [1 .. Len(sessions) -> SessionType]
  BY SessionInType, LenProperties DEF Types, NetOK
<1>2. CASE Data(s)
  BY <1>1, <1>2 DEF Data, SessionType
<1>3. ASSUME sessions' = Over(s)
      PROVE  y.sent = x.sent
  BY <1>1, <1>3 DEF Over, SessionType
<1>4. CASE Connect(s)
  BY <1>1, <1>4 DEF Connect, SessionType
<1>5. CASE Report(s)
  <2>1. y = [x EXCEPT !.told = TRUE]
    BY <1>1, <1>5 DEF Report
  <2>2. y.sent = x.sent
    <3> HIDE DEF x, y
    <3> QED
      BY <1>1, <2>1 DEF SessionType
  <2> QED
    BY <1>5, <2>2 DEF Report
<1>6. CASE ConnectFails(s)
  <2>1. y = [x EXCEPT !.phase = "over", !.told = TRUE]
    BY <1>1, <1>6 DEF ConnectFails
  <2>2. y.sent = x.sent
    <3> HIDE DEF x, y
    <3> QED
      BY <1>1, <2>1 DEF SessionType
  <2> QED
    BY <1>6, <2>2 DEF ConnectFails
<1>7. CASE Break(s)
  BY <1>1, <1>7 DEF Break, SessionType
<1>8. CASE Ends(s)
  BY <1>3, <1>8 DEF Ends
<1>9. CASE Command(s)
  <2>1. sessions' = Over(s) \/ y.sent = x.sent
    BY <1>1, <1>9 DEF Command, SessionType
  <2>2. events' = events \/ events' = Append(events, Event(s, "closed", 0))
    BY <1>9 DEF Command, Farewell
  <2> QED
    BY <1>3, <2>1, <2>2
<1> QED
  BY <1>2, <1>4, <1>5, <1>6, <1>7, <1>8, <1>9 DEF Task

(* A task that has a tab and was not told to close says that it ends.      *)
LEMMA TaskEnds ==
  ASSUME Types, NEW s \in 1 .. Len(sessions), Task(s), NoClose(sessions[s]),
         sessions[s].phase # "connecting"
  PROVE  /\ NoClose(sessions'[s])
         /\ sessions'[s].phase = "over" =>
              \/ sessions[s].phase = "over"
              \/ events' = Append(events, Event(s, "closed", 0))
<1> DEFINE x == sessions[s]
           y == sessions'[s]
<1>1. x \in SessionType /\ sessions \in [1 .. Len(sessions) -> SessionType]
  BY SessionInType, LenProperties DEF Types, NetOK
<1>2. CASE Report(s) \/ Data(s) \/ Break(s)
  <2>1. y.commands = x.commands /\ (y.phase = "over" => x.phase = "over")
    <3>1. CASE Report(s)
      <4>1. y = [x EXCEPT !.told = TRUE]
        BY <1>1, <3>1 DEF Report
      <4> HIDE DEF x, y
      <4> QED
        BY <1>1, <4>1 DEF SessionType
    <3>2. CASE Data(s)
      BY <1>1, <3>2 DEF Data, SessionType
    <3>3. CASE Break(s)
      BY <1>1, <3>3 DEF Break, SessionType
    <3> QED
      BY <1>2, <3>1, <3>2, <3>3
  <2> QED
    BY <2>1 DEF NoClose
<1>3. ASSUME sessions' = Over(s)
      PROVE  NoClose(y)
  <2>1. y.commands = << >>
    BY <1>1, <1>3 DEF Over, SessionType
  <2> QED
    BY <2>1 DEF NoClose
<1>4. CASE Ends(s)
  BY <1>3, <1>4 DEF Ends
<1>5. CASE Command(s)
  <2> DEFINE c == Head(x.commands)
  <2>1. x.commands # << >> /\ x.commands \in Seq(Commands)
    BY <1>1, <1>5 DEF Command, SessionType
  <2>2. c.kind # "close"
    <3>1. c = x.commands[1] /\ Len(x.commands) \in Nat \ {0}
      BY <2>1
    <3> QED
      BY <3>1 DEF NoClose
  <2>3. \/ sessions' = Over(s) /\ events' = Append(events, Event(s, "closed", 0))
        \/ y.phase = x.phase /\ y.commands = Tail(x.commands)
    BY <1>1, <1>5, <2>2 DEF Command, Farewell, SessionType
  <2>4. CASE y.phase = x.phase /\ y.commands = Tail(x.commands)
    <3> HIDE DEF x, y
    <3>1. /\ Len(x.commands) \in Nat \ {0} /\ Len(y.commands) = Len(x.commands) - 1
          /\ \A k \in 1 .. Len(x.commands) - 1 : y.commands[k] = x.commands[k + 1]
      BY <2>1, <2>4, HeadTailProperties
    <3>2. NoClose(x)
      BY DEF x
    <3>3. ASSUME NEW k \in 1 .. Len(y.commands)
          PROVE  y.commands[k].kind # "close"
      <4>1. k + 1 \in 1 .. Len(x.commands) /\ k \in 1 .. Len(x.commands) - 1
        BY <3>1
      <4>2. y.commands[k] = x.commands[k + 1]
        BY <3>1, <4>1
      <4>3. x.commands[k + 1].kind # "close"
        BY <3>2, <4>1 DEF NoClose
      <4> QED
        BY <4>2, <4>3
    <3> QED
      BY <2>4, <3>3 DEF NoClose, x, y
  <2> QED
    BY <1>3, <2>3, <2>4
<1> QED
  BY <1>2, <1>4, <1>5 DEF Task, Connect, ConnectFails

(* The queue after an event was appended.                                  *)
LEMMA EventAppended ==
  ASSUME Types, NEW s \in 1 .. Len(sessions), NEW kind \in {"data", "closed"}, NEW n \in 0 .. MaxData,
         kind = "data" => n > 0, events' = Append(events, Event(s, kind, n))
  PROVE  LET m == Len(events)
         IN /\ m \in Nat /\ Len(events') = m + 1
            /\ \A k \in 1 .. m : events'[k] = events[k]
            /\ events'[m + 1].session = s /\ events'[m + 1].kind = kind
            /\ events'[m + 1].n = n /\ events'[m + 1].tag = sessions[s].tag
            /\ \A k \in 1 .. m + 1 : k \in 1 .. m \/ k = m + 1
<1> DEFINE e == Event(s, kind, n)
<1>1. e.session = s /\ e.kind = kind /\ e.n = n /\ e.tag = sessions[s].tag
  BY DEF Event
<1>2. e \in EventType(Len(sessions))
  BY SessionInType DEF Event, EventType
<1>3. events \in Seq(EventType(Len(sessions)))
  BY DEF Types, NetOK
<1> HIDE DEF e
<1>4. PICK m \in Nat : m = Len(events)
  BY <1>3
<1>5. events' = Append(events, e)
  BY DEF e
<1>6. /\ Len(events') = m + 1 /\ events'[m + 1] = e
      /\ \A k \in 1 .. m : events'[k] = events[k]
  BY <1>2, <1>3, <1>4, <1>5, AppendProperties
<1> QED
  BY <1>1, <1>4, <1>6

(* What session s sends waits as the last of its output.                   *)
LEMMA DataPending ==
  ASSUME Types, NEW s \in 1 .. Len(sessions), NEW f \in Nat, Pending(s, f),
         sessions'[s].sent = sessions[s].sent + 1, sessions'[s].sent <= MaxData,
         events' = Append(events, Event(s, "data", sessions[s].sent + 1))
  PROVE  Pending(s, f)'
<1>1. PICK z \in Nat : z = sessions[s].sent
  BY SessionInType
<1>2. z + 1 \in 0 .. MaxData /\ z + 1 > 0 /\ "data" \in {"data", "closed"}
  BY <1>1, BoundAssumption
<1>3. PICK m \in Nat : m = Len(events)
  BY LenProperties DEF Types, NetOK
<1>4. /\ Len(events') = m + 1
      /\ \A k \in 1 .. m : events'[k] = events[k]
      /\ events'[m + 1].session = s /\ events'[m + 1].kind = "data"
      /\ events'[m + 1].n = z + 1
      /\ \A k \in 1 .. m + 1 : k \in 1 .. m \/ k = m + 1
  BY <1>1, <1>2, <1>3, EventAppended
<1>5. /\ \A k \in 1 .. m : Waits(s, k)' <=> Waits(s, k)
      /\ Waits(s, m + 1)'
  BY <1>4 DEF Waits
<1>6. /\ f \in 0 .. z
      /\ \A k \in 1 .. m : Waits(s, k) => events[k].n \in f + 1 .. z
      /\ \A v \in f + 1 .. z : \E k \in 1 .. m : Waits(s, k) /\ events[k].n = v
      /\ \A j, k \in 1 .. m : Waits(s, j) /\ Waits(s, k) /\ j < k => events[j].n < events[k].n
  BY <1>1, <1>3 DEF Pending
<1>7. \A k \in 1 .. m + 1 : Waits(s, k)' => events'[k].n \in f + 1 .. z + 1
  <2> TAKE k \in 1 .. m + 1
  <2>1. CASE k = m + 1
    BY <1>1, <1>4, <1>6, <2>1
  <2>2. CASE k \in 1 .. m
    BY <1>1, <1>4, <1>5, <1>6, <2>2
  <2> QED
    BY <1>4, <2>1, <2>2
<1>8. \A v \in f + 1 .. z + 1 : \E k \in 1 .. m + 1 : Waits(s, k)' /\ events'[k].n = v
  <2> TAKE v \in f + 1 .. z + 1
  <2>1. CASE v = z + 1
    BY <1>3, <1>4, <1>5, <2>1
  <2>2. CASE v # z + 1
    <3>1. v \in f + 1 .. z
      <4>1. v \in Int /\ f + 1 <= v /\ v <= z + 1 /\ z \in Nat
        BY <1>1
      <4> QED
        BY <2>2, <4>1
    <3>2. PICK k \in 1 .. m : Waits(s, k) /\ events[k].n = v
      BY <1>6, <3>1
    <3> QED
      BY <1>3, <1>4, <1>5, <3>2
  <2> QED
    BY <2>1, <2>2
<1>9. \A j, k \in 1 .. m + 1 : Waits(s, j)' /\ Waits(s, k)' /\ j < k => events'[j].n < events'[k].n
  <2> TAKE j, k \in 1 .. m + 1
  <2> HAVE Waits(s, j)' /\ Waits(s, k)' /\ j < k
  <2>1. j \in 1 .. m
    BY <1>3
  <2>2. CASE k = m + 1
    <3>1. events[j].n \in f + 1 .. z
      BY <1>5, <1>6, <2>1
    <3> QED
      BY <1>1, <1>4, <2>1, <2>2, <3>1
  <2>3. CASE k \in 1 .. m
    BY <1>4, <1>5, <1>6, <2>1, <2>3
  <2> QED
    BY <1>4, <2>2, <2>3
<1>10. f \in 0 .. z + 1
  BY <1>1, <1>6
<1>11. sessions'[s].sent = z + 1 /\ Len(events') = m + 1
  BY <1>1, <1>4
<1> QED
  BY <1>7, <1>8, <1>9, <1>10, <1>11 DEF Pending

(* Another session's output, or news of an end, does not touch it.         *)
LEMMA OtherPending ==
  ASSUME Types, NEW s \in 1 .. Len(sessions), NEW f \in Nat, Pending(s, f),
         sessions'[s].sent = sessions[s].sent,
         \/ events' = events
         \/ \E u \in 1 .. Len(sessions), kind \in {"data", "closed"}, n \in 0 .. MaxData :
              /\ kind = "data" => n > 0 /\ u # s
              /\ events' = Append(events, Event(u, kind, n))
  PROVE  Pending(s, f)'
<1>1. CASE events' = events
  BY <1>1 DEF Pending, Waits
<1>2. ASSUME NEW u \in 1 .. Len(sessions), NEW kind \in {"data", "closed"}, NEW n \in 0 .. MaxData,
             kind = "data" => n > 0 /\ u # s,
             events' = Append(events, Event(u, kind, n))
      PROVE  Pending(s, f)'
  <2>1. PICK m \in Nat : m = Len(events)
    BY LenProperties DEF Types, NetOK
  <2>2. /\ Len(events') = m + 1
        /\ \A k \in 1 .. m : events'[k] = events[k]
        /\ events'[m + 1].session = u /\ events'[m + 1].kind = kind
        /\ \A k \in 1 .. m + 1 : k \in 1 .. m \/ k = m + 1
    BY <1>2, <2>1, EventAppended
  <2>3. /\ \A k \in 1 .. m : Waits(s, k)' <=> Waits(s, k)
        /\ ~Waits(s, m + 1)'
    BY <1>2, <2>2 DEF Waits
  <2>4. \A k \in 1 .. m : k \in 1 .. m + 1
    BY <2>1
  <2>5. \A k \in 1 .. m + 1 : Waits(s, k)' => k \in 1 .. m
    BY <2>2, <2>3
  <2> QED
    BY <2>1, <2>2, <2>3, <2>4, <2>5 DEF Pending
<1> QED
  BY <1>1, <1>2

(* What it sends goes to the end of the flow.                              *)
LEMMA TaskFlows ==
  ASSUME Types, OutputInv, NEW s \in 1 .. Len(sessions), Task(s)
  PROVE  OutputInv'
<1>1. /\ Len(sessions') = Len(sessions) /\ sessions'[s] \in SessionType
      /\ \A u \in 1 .. Len(sessions) : u # s => sessions'[u] = sessions[u]
  BY TaskChanges, ElementOfSeq
<1>2. UNCHANGED <<tabs, closed, dialog, connecting>>
  BY DEF Task, layout, line
<1>3. \A u \in 1 .. Len(sessions), f \in Nat :
        (\A i \in 1 .. Len(tabs) : tabs[i].session = u /\ ~closed[i] => FedUpTo(i, f))
        => \A i \in 1 .. Len(tabs') : tabs'[i].session = u /\ ~closed'[i] => FedUpTo(i, f)'
  BY <1>2 DEF FedUpTo
<1>4. ASSUME NEW u \in 1 .. Len(sessions), NEW f \in Nat, Pending(u, f)
      PROVE  Pending(u, f)'
  <2>0. sessions'[s].sent \in 0 .. MaxData /\ 0 \in 0 .. MaxData /\ sessions[s].sent \in Nat
    BY <1>1, BoundAssumption, SessionInType DEF SessionType
  <2>1. CASE /\ sessions'[s].sent = sessions[s].sent + 1
             /\ events' = Append(events, Event(s, "data", sessions[s].sent + 1))
    <3>1. CASE u = s
      BY <1>4, <2>0, <2>1, <3>1, DataPending
    <3>2. CASE u # s
      <4>1. sessions[s].sent + 1 \in 0 .. MaxData /\ sessions[s].sent + 1 > 0
        BY <2>0, <2>1
      <4>2. \E v \in 1 .. Len(sessions), kind \in {"data", "closed"}, n \in 0 .. MaxData :
              /\ kind = "data" => n > 0 /\ v # u
              /\ events' = Append(events, Event(v, kind, n))
        BY <2>1, <3>2, <4>1
      <4> QED
        BY <1>1, <1>4, <3>2, <4>2, OtherPending
    <3> QED
      BY <3>1, <3>2
  <2>2. CASE /\ sessions'[s].sent = sessions[s].sent
             /\ events' = events \/ events' = Append(events, Event(s, "closed", 0))
    <3>1. \/ events' = events
          \/ \E v \in 1 .. Len(sessions), kind \in {"data", "closed"}, n \in 0 .. MaxData :
              /\ kind = "data" => n > 0 /\ v # u
              /\ events' = Append(events, Event(v, kind, n))
      <4>1. "closed" # "data" /\ "closed" \in {"data", "closed"}
        OBVIOUS
      <4> QED
        BY <2>0, <2>2, <4>1
    <3> QED
      BY <1>1, <1>4, <2>2, <3>1, OtherPending
  <2> QED
    BY <2>1, <2>2, TaskOutput
<1>5. \A u \in 1 .. Len(sessions') : \E f \in Nat : Flows(u, f)'
  <2> SUFFICES ASSUME NEW u \in 1 .. Len(sessions)
               PROVE  \E f \in Nat : Flows(u, f)'
    BY <1>1
  <2>1. PICK f \in Nat : Flows(u, f)
    BY DEF OutputInv
  <2>2. Flows(u, f)'
    BY <1>3, <1>4, <2>1 DEF Flows
  <2> QED
    BY <2>2
<1> QED
  BY <1>2, <1>5 DEF OutputInv, NoAttempts

-----------------------------------------------------------------------------
(* The event at the head of the queue.                                     *)

(* The first event leaves the queue, and the sessions stay as they are.    *)
LEMMA EventTaken ==
  ASSUME Types, HandleEvent
  PROVE  LET m == Len(events)
         IN /\ m \in Nat \ {0} /\ Len(events') = m - 1 /\ Head(events) = events[1]
            /\ \A k \in 1 .. m - 1 : events'[k] = events[k + 1]
            /\ sessions' = sessions /\ UNCHANGED line
<1>1. events # << >> /\ events' = Tail(events) /\ events \in Seq(EventType(Len(sessions)))
      /\ UNCHANGED <<sessions, line>>
  BY DEF HandleEvent, Types, NetOK
<1>2. Len(events) \in Nat \ {0} /\ Head(events) = events[1]
  BY <1>1
<1> QED
  BY <1>1, <1>2, HeadTailProperties

(* It is fed to the open tab of its session, or is no news for it.         *)
LEMMA HeadFeeds ==
  ASSUME Types, Routing, GridInv, HandleEvent, NEW i \in 1 .. Len(tabs), ~closed'[i]
  PROVE  /\ ~closed[i]
         /\ Waits(tabs[i].session, 1) =>
              tabs'[i].fed = Append(tabs[i].fed, [session |-> tabs[i].session, n |-> events[1].n])
         /\ ~Waits(tabs[i].session, 1) => tabs'[i].fed = tabs[i].fed
         /\ events[1].tag = i => events[1].kind = "data"
<1> DEFINE e == events[1]
<1>1. /\ 1 \in 1 .. Len(events) /\ Head(events) = e
      /\ closed \in [1 .. Len(tabs) -> BOOLEAN] /\ DOMAIN tabs = 1 .. Len(tabs) /\ Len(tabs) \in Nat
  BY EventTaken, LenProperties DEF Types, LayoutOK
<1>2. e.tag = i <=> e.session = tabs[i].session
  BY <1>1, QueuedEvent
<1>3. ~closed[i]
  BY EventTabs
<1>4. tabs[i] \in TabType(Len(sessions))
  BY TabInType
<1>5. \/ Unwanted(e) /\ UNCHANGED <<tabs, closed>>
      \/ ~Unwanted(e) /\ (Fed(e) \/ TabEnds(e))
  BY <1>1 DEF HandleEvent
<1> HIDE DEF e
<1>6. CASE e.tag # i
  <2>1. tabs'[i] = tabs[i]
    BY <1>1, <1>5, <1>6 DEF Fed, TabEnds
  <2> QED
    BY <1>2, <1>3, <1>6, <2>1 DEF Waits, e
<1>7. CASE e.tag = i
  <2>1. ~Unwanted(e)
    BY <1>1, <1>3, <1>7 DEF Unwanted
  <2>2. ~TabEnds(e)
    BY <1>1, <1>7 DEF TabEnds
  <2> DEFINE piece == [session |-> e.session, n |-> e.n]
  <2>3. e.kind = "data" /\ tabs' = [tabs EXCEPT ![i].fed = Append(@, piece)]
    BY <1>5, <1>7, <2>1, <2>2 DEF Fed
  <2>4. tabs'[i].fed = Append(tabs[i].fed, piece)
    <3> HIDE DEF piece
    <3> QED
      BY <1>1, <1>4, <2>3 DEF TabType
  <2>5. Waits(tabs[i].session, 1)
    BY <1>2, <1>7, <2>3 DEF Waits, e
  <2>6. piece = [session |-> tabs[i].session, n |-> events[1].n]
    BY <1>2, <1>7 DEF e
  <2> QED
    BY <1>3, <2>3, <2>4, <2>5, <2>6 DEF e
<1> QED
  BY <1>6, <1>7

(* What waits when the head of the queue is gone.                          *)
LEMMA HeadPending ==
  ASSUME Types, HandleEvent, NEW s \in 1 .. Len(sessions), NEW f \in Nat, Pending(s, f)
  PROVE  /\ ~Waits(s, 1) => Pending(s, f)'
         /\ Waits(s, 1) => events[1].n = f + 1 /\ Pending(s, f + 1)'
<1>1. PICK z \in Nat : z = sessions[s].sent
  BY SessionInType
<1>2. PICK m \in Nat \ {0} : m = Len(events)
  BY EventTaken
<1>3. /\ Len(events') = m - 1 /\ sessions'[s].sent = z
      /\ \A k \in 1 .. m - 1 : events'[k] = events[k + 1]
  BY <1>1, <1>2, EventTaken
<1>4. /\ f \in 0 .. z
      /\ \A k \in 1 .. m : Waits(s, k) => events[k].n \in f + 1 .. z
      /\ \A v \in f + 1 .. z : \E k \in 1 .. m : Waits(s, k) /\ events[k].n = v
      /\ \A j, k \in 1 .. m : Waits(s, j) /\ Waits(s, k) /\ j < k => events[j].n < events[k].n
  BY <1>1, <1>2 DEF Pending
<1>5. \A k \in 1 .. m - 1 : k + 1 \in 1 .. m /\ (Waits(s, k)' <=> Waits(s, k + 1))
  <2> TAKE k \in 1 .. m - 1
  <2>1. k + 1 \in 1 .. m
    BY <1>2
  <2> QED
    BY <1>3, <2>1 DEF Waits
<1>6. \A k \in 1 .. m : k = 1 \/ (k - 1 \in 1 .. m - 1 /\ (k - 1) + 1 = k)
  BY <1>2
<1>7. \A j, k \in 1 .. m - 1 : Waits(s, j)' /\ Waits(s, k)' /\ j < k => events'[j].n < events'[k].n
  <2> TAKE j, k \in 1 .. m - 1
  <2> HAVE Waits(s, j)' /\ Waits(s, k)' /\ j < k
  <2>1. j + 1 \in 1 .. m /\ k + 1 \in 1 .. m /\ j + 1 < k + 1
    BY <1>5
  <2>2. events[j + 1].n < events[k + 1].n
    BY <1>4, <1>5, <2>1
  <2> QED
    BY <1>3, <2>2
<1>8. ASSUME ~Waits(s, 1)
      PROVE  Pending(s, f)'
  <2>1. \A k \in 1 .. m - 1 : Waits(s, k)' => events'[k].n \in f + 1 .. z
    BY <1>3, <1>4, <1>5
  <2>2. ASSUME NEW v \in f + 1 .. z
        PROVE  \E k \in 1 .. m - 1 : Waits(s, k)' /\ events'[k].n = v
    <3>1. PICK k \in 1 .. m : Waits(s, k) /\ events[k].n = v
      BY <1>4
    <3>2. k - 1 \in 1 .. m - 1 /\ (k - 1) + 1 = k
      BY <1>6, <1>8, <3>1
    <3>3. Waits(s, k - 1)' /\ events'[k - 1].n = v
      BY <1>3, <1>5, <3>1, <3>2
    <3> QED
      BY <3>2, <3>3
  <2> QED
    BY <1>3, <1>4, <1>7, <2>1, <2>2 DEF Pending
<1>9. ASSUME Waits(s, 1)
      PROVE  events[1].n = f + 1 /\ Pending(s, f + 1)'
  <2>1. 1 \in 1 .. m
    BY <1>2
  <2>2. events[1].n \in f + 1 .. z /\ f + 1 \in f + 1 .. z
    BY <1>1, <1>4, <1>9, <2>1
  <2>3. PICK k \in 1 .. m : Waits(s, k) /\ events[k].n = f + 1
    BY <1>4, <2>2
  <2>4. k = 1
    <3>1. CASE k # 1
      <4>1. 1 < k
        BY <1>2, <3>1
      <4>2. events[1].n < f + 1
        BY <1>4, <1>9, <2>1, <2>3, <4>1
      <4> QED
        BY <2>2, <4>2
    <3> QED
      BY <3>1
  <2>5. events[1].n = f + 1
    BY <2>3, <2>4
  <2>6. ASSUME NEW j \in 1 .. m - 1, Waits(s, j)'
        PROVE  events'[j].n \in f + 1 + 1 .. z
    <3>1. j + 1 \in 1 .. m /\ 1 < j + 1 /\ Waits(s, j + 1)
      BY <1>5, <2>6
    <3>2. events[j + 1].n \in f + 1 .. z /\ events[1].n < events[j + 1].n
      BY <1>4, <1>9, <2>1, <3>1
    <3>3. events'[j] = events[j + 1]
      BY <1>3
    <3> QED
      BY <2>5, <3>2, <3>3
  <2>7. ASSUME NEW v \in f + 1 + 1 .. z
        PROVE  \E j \in 1 .. m - 1 : Waits(s, j)' /\ events'[j].n = v
    <3>1. v \in f + 1 .. z /\ v # f + 1
      OBVIOUS
    <3>2. PICK j \in 1 .. m : Waits(s, j) /\ events[j].n = v
      BY <1>4, <3>1
    <3>3. j - 1 \in 1 .. m - 1 /\ (j - 1) + 1 = j
      BY <1>6, <2>5, <3>1, <3>2
    <3>4. Waits(s, j - 1)' /\ events'[j - 1].n = v
      BY <1>3, <1>5, <3>2, <3>3
    <3> QED
      BY <3>3, <3>4
  <2>8. f + 1 \in 0 .. z
    BY <1>4, <2>2
  <2> QED
    BY <1>3, <1>7, <2>5, <2>6, <2>7, <2>8 DEF Pending
<1> QED
  BY <1>8, <1>9

(* Output taken from the queue goes to its tab, if that is open.           *)
LEMMA HandleEventFlows ==
  ASSUME Types, Routing, GridInv, OutputInv, HandleEvent
  PROVE  OutputInv'
<1>1. Kept /\ sessions' = sessions /\ UNCHANGED line
  BY HandleEventKeeps, EventTaken
<1>2. ASSUME NEW s \in 1 .. Len(sessions), NEW f \in Nat, Flows(s, f), ~Waits(s, 1)
      PROVE  Flows(s, f)'
  <2>1. Pending(s, f)'
    BY <1>2, HeadPending DEF Flows
  <2>2. ASSUME NEW i \in 1 .. Len(tabs), tabs'[i].session = s, ~closed'[i]
        PROVE  FedUpTo(i, f)'
    <3>1. tabs[i].session = s
      BY <1>1, <2>2 DEF Kept
    <3>2. ~closed[i] /\ tabs'[i].fed = tabs[i].fed
      BY <1>2, <2>2, <3>1, HeadFeeds
    <3> QED
      BY <1>2, <2>2, <3>1, <3>2 DEF Flows, FedUpTo
  <2> QED
    BY <1>1, <2>1, <2>2 DEF Flows, Kept
<1>3. ASSUME NEW s \in 1 .. Len(sessions), NEW f \in Nat, Flows(s, f), Waits(s, 1)
      PROVE  Flows(s, f + 1)'
  <2>1. events[1].n = f + 1 /\ Pending(s, f + 1)'
    BY <1>3, HeadPending DEF Flows
  <2>2. ASSUME NEW i \in 1 .. Len(tabs), tabs'[i].session = s, ~closed'[i]
        PROVE  FedUpTo(i, f + 1)'
    <3> DEFINE fed == tabs[i].fed
               piece == [session |-> s, n |-> f + 1]
    <3>1. tabs[i].session = s
      BY <1>1, <2>2 DEF Kept
    <3>2. ~closed[i] /\ tabs'[i].fed = Append(fed, piece)
      BY <1>3, <2>1, <2>2, <3>1, HeadFeeds
    <3>3. FedUpTo(i, f)
      BY <1>3, <3>1, <3>2 DEF Flows
    <3>4. PICK n \in Nat : n = Len(fed)
      BY FedTypes
    <3>5. fed \in Seq([session : 1 .. Len(sessions), n : 1 .. MaxData])
      BY TabInType DEF TabType
    <3>6. /\ n <= f
          /\ "new" \notin Keys => n = f
          /\ \A k \in 1 .. n : fed[k] = [session |-> s, n |-> f - n + k]
      BY <3>1, <3>3, <3>4 DEF FedUpTo
    <3> HIDE DEF fed, piece
    <3>7. /\ Len(tabs'[i].fed) = n + 1 /\ tabs'[i].fed[n + 1] = piece
          /\ \A k \in 1 .. n : tabs'[i].fed[k] = fed[k]
      BY <3>2, <3>4, <3>5
    <3>8. \A k \in 1 .. n + 1 : tabs'[i].fed[k] = [session |-> s, n |-> (f + 1) - (n + 1) + k]
      <4> TAKE k \in 1 .. n + 1
      <4>1. CASE k = n + 1
        <5>1. (f + 1) - (n + 1) + k = f + 1
          BY <4>1
        <5> QED
          BY <3>7, <4>1, <5>1 DEF piece
      <4>2. CASE k # n + 1
        <5>1. k \in 1 .. n /\ (f + 1) - (n + 1) + k = f - n + k
          BY <4>2
        <5> QED
          BY <3>6, <3>7, <5>1
      <4> QED
        BY <4>1, <4>2
    <3>9. n + 1 <= f + 1 /\ ("new" \notin Keys => n + 1 = f + 1)
      BY <3>6
    <3> QED
      BY <2>2, <3>7, <3>8, <3>9 DEF FedUpTo
  <2> QED
    BY <1>1, <2>1, <2>2 DEF Flows, Kept
<1>4. \A s \in 1 .. Len(sessions') : \E f \in Nat : Flows(s, f)'
  <2> SUFFICES ASSUME NEW s \in 1 .. Len(sessions)
               PROVE  \E f \in Nat : Flows(s, f)'
    BY <1>1
  <2>1. PICK f \in Nat : Flows(s, f)
    BY DEF OutputInv
  <2>2. Flows(s, f)' \/ Flows(s, f + 1)'
    BY <1>2, <1>3, <2>1
  <2> QED
    BY <2>2
<1> QED
  BY <1>1, <1>4 DEF OutputInv, NoAttempts, line

-----------------------------------------------------------------------------
(* New tabs and new sessions.                                              *)

(* A result adds at most one tab, which was fed nothing yet.               *)
LEMMA ResultAdds ==
  ASSUME Types, Routing, GridInv, HandleResult
  PROVE  /\ connecting /\ sessions' = sessions /\ events' = events
         /\ dialog' = dialog /\ connecting' = FALSE
         /\ \/ tabs' = tabs /\ closed' = closed
            \/ LET n == Len(tabs)
               IN /\ n \in Nat /\ Len(tabs') = n + 1 /\ tabs'[n + 1].fed = << >>
                  /\ tabs'[n + 1].session \in 1 .. Len(sessions)
                  /\ sessions[tabs'[n + 1].session].commands = << >>
                  /\ \A i \in 1 .. n : tabs'[i] = tabs[i] /\ closed'[i] = closed[i]
                  /\ \A i \in 1 .. n + 1 : i \in 1 .. n \/ i = n + 1
<1> DEFINE r == Head(results)
           n == Len(tabs)
<1>1. /\ results # << >> /\ sessions' = sessions /\ events' = events
      /\ dialog' = dialog /\ connecting' = FALSE
  BY DEF HandleResult
<1>2. /\ results \in Seq(0 .. Len(sessions)) /\ n \in Nat
      /\ tabs \in Seq(TabType(Len(sessions))) /\ closed \in [1 .. n -> BOOLEAN]
      /\ Len(results) \in Nat
  BY ResultsAreASequence DEF Types, NetOK, LayoutOK
<1>3. r = results[1] /\ Len(results) # 0 /\ r \in 0 .. Len(sessions)
  BY <1>1, <1>2
<1>4. connecting
  BY <1>3 DEF Routing, ResultPending
<1>5. CASE r = 0
  <2>1. tabs' = tabs /\ closed' = closed
    BY <1>5 DEF HandleResult
  <2> QED
    BY <1>1, <1>4, <2>1
<1>6. CASE r # 0
  <2> DEFINE t == NewTab(r)
  <2>1. tabs' = Append(tabs, t) /\ closed' = Append(closed, FALSE)
    BY <1>6 DEF HandleResult
  <2>2. r \in 1 .. Len(sessions) /\ AttemptPending(r)
    BY <1>3, <1>6, ResultsAreASequence DEF Routing, ResultPending
  <2>3. t.session = r /\ t.fed = << >>
    BY DEF NewTab
  <2>4. sessions[r].commands = << >>
    <3>1. sessions[r].tag = n + 1
      BY <2>2 DEF AttemptPending
    <3> QED
      BY <1>2, <2>2, <3>1 DEF GridInv, QuietBefore
  <2> HIDE DEF r, t, n
  <2>5. /\ Len(tabs') = n + 1 /\ tabs'[n + 1] = t
        /\ \A i \in 1 .. n : tabs'[i] = tabs[i]
    BY <1>2, <2>1 DEF n
  <2>6. \A i \in 1 .. n : closed'[i] = closed[i]
    <3>1. closed \in Seq(BOOLEAN) /\ Len(closed) = n
      BY <1>2, FunctionIsSeq
    <3>2. closed' = Append(closed, FALSE)
      BY <2>1
    <3>3. \A i \in 1 .. Len(closed) : Append(closed, FALSE)[i] = closed[i]
      BY <3>1, FalseIsBoolean, AppendKeeps, Zenon
    <3> QED
      BY <3>1, <3>2, <3>3, Zenon
  <2>7. \A i \in 1 .. n + 1 : i \in 1 .. n \/ i = n + 1
    BY <1>2
  <2> QED
    BY <1>1, <1>2, <1>4, <2>2, <2>3, <2>4, <2>5, <2>6, <2>7 DEF n
<1> QED
  BY <1>5, <1>6

(* A tab that is opened begins where the queue is, and no close waits for  *)
(* its task.                                                               *)
LEMMA HandleResultFlows ==
  ASSUME Types, Routing, GridInv, OutputInv, EndsInv, HandleResult
  PROVE  OutputInv' /\ EndsInv'
<1>1. /\ "new" \in Keys /\ NoAttempts' /\ sessions' = sessions /\ events' = events
  BY ResultAdds DEF OutputInv, NoAttempts
<1>2. CASE tabs' = tabs /\ closed' = closed
  <2>1. ASSUME NEW s \in 1 .. Len(sessions), NEW f \in Nat, Flows(s, f)
        PROVE  Flows(s, f)'
    <3>1. Pending(s, f)'
      BY <1>1, <2>1 DEF Flows, Pending, Waits
    <3> QED
      BY <1>1, <1>2, <2>1, <3>1 DEF Flows, FedUpTo
  <2>2. OutputInv'
    BY <1>1, <2>1 DEF OutputInv
  <2>3. EndsInv'
    BY <1>1, <1>2 DEF EndsInv, NewsQueued
  <2> QED
    BY <2>2, <2>3
<1>3. CASE LET n == Len(tabs)
           IN /\ n \in Nat /\ Len(tabs') = n + 1 /\ tabs'[n + 1].fed = << >>
              /\ tabs'[n + 1].session \in 1 .. Len(sessions)
              /\ sessions[tabs'[n + 1].session].commands = << >>
              /\ \A i \in 1 .. n : tabs'[i] = tabs[i] /\ closed'[i] = closed[i]
              /\ \A i \in 1 .. n + 1 : i \in 1 .. n \/ i = n + 1
  <2>1. ASSUME NEW s \in 1 .. Len(sessions), NEW f \in Nat, Flows(s, f)
        PROVE  Flows(s, f)'
    <3>1. Pending(s, f)'
      BY <1>1, <2>1 DEF Flows, Pending, Waits
    <3>2. ASSUME NEW i \in 1 .. Len(tabs'), tabs'[i].session = s, ~closed'[i]
          PROVE  FedUpTo(i, f)'
      <4>1. CASE i \in 1 .. Len(tabs)
        BY <1>3, <2>1, <3>2, <4>1 DEF Flows, FedUpTo
      <4>2. CASE i = Len(tabs) + 1
        <5>1. tabs'[i].fed = << >> /\ 0 <= f
          BY <1>3, <4>2
        <5> QED
          BY <1>1, <5>1 DEF FedUpTo
      <4> QED
        BY <1>3, <3>2, <4>1, <4>2
    <3> QED
      BY <3>1, <3>2 DEF Flows
  <2>2. OutputInv'
    BY <1>1, <2>1 DEF OutputInv
  <2>3. ASSUME NEW i \in 1 .. Len(tabs'), ~closed'[i]
        PROVE  NoClose(sessions'[tabs'[i].session])
    <3>1. CASE i \in 1 .. Len(tabs)
      BY <1>1, <1>3, <2>3, <3>1 DEF EndsInv
    <3>2. CASE i = Len(tabs) + 1
      BY <1>1, <1>3, <3>2 DEF NoClose
    <3> QED
      BY <1>3, <2>3, <3>1, <3>2
  <2> QED
    BY <1>1, <2>2, <2>3 DEF EndsInv
<1> QED
  BY <1>2, <1>3, ResultAdds

(* An attempt has sent nothing.                                            *)
LEMMA StartAttemptFlows ==
  ASSUME Types, OutputInv, EndsInv, StartAttempt
  PROVE  OutputInv' /\ EndsInv'
<1> DEFINE x == NewSession(Len(tabs) + 1, term)
<1>0. PICK n \in Nat : n = Len(sessions)
  BY ResultsAreASequence
<1>1. /\ sessions' = Append(sessions, x) /\ tabs' = tabs /\ closed' = closed /\ events' = events
      /\ dialog
  BY DEF StartAttempt
<1>2. x.sent = 0
  BY DEF NewSession
<1> HIDE DEF x
<1>3. sessions \in Seq(SessionType)
  BY DEF Types, NetOK
<1>4. /\ Len(sessions') = n + 1 /\ sessions'[n + 1] = x
      /\ \A s \in 1 .. n : sessions'[s] = sessions[s]
  BY <1>0, <1>1, <1>3
<1>5. /\ \A i \in 1 .. Len(tabs) : tabs[i].session \in 1 .. n
      /\ \A k \in 1 .. Len(events) : events[k].session \in 1 .. n
  BY <1>0, TabInType, EventInType
<1>6. \A s \in 1 .. n + 1 : s \in 1 .. n \/ s = n + 1
  OBVIOUS
<1>7. "new" \in Keys
  BY <1>1 DEF OutputInv, NoAttempts
<1>8. ASSUME NEW s \in 1 .. n + 1
      PROVE  \E f \in Nat : Flows(s, f)'
  <2>1. CASE s \in 1 .. n
    <3>1. PICK f \in Nat : Flows(s, f)
      BY <1>0, <2>1 DEF OutputInv
    <3>2. Flows(s, f)'
      BY <1>1, <1>4, <2>1, <3>1 DEF Flows, Pending, Waits, FedUpTo
    <3> QED
      BY <3>2
  <2>2. CASE s = n + 1
    <3>1. n + 1 \notin 1 .. n
      OBVIOUS
    <3>2. \A k \in 1 .. Len(events') : ~Waits(s, k)'
      BY <1>1, <1>5, <2>2, <3>1 DEF Waits
    <3>3. sessions'[s].sent = 0
      BY <1>2, <1>4, <2>2
    <3>4. Pending(s, 0)'
      BY <3>2, <3>3 DEF Pending
    <3>5. \A i \in 1 .. Len(tabs') : tabs'[i].session # s
      BY <1>1, <1>5, <2>2, <3>1
    <3>6. Flows(s, 0)'
      BY <3>4, <3>5 DEF Flows
    <3> QED
      BY <3>6
  <2> QED
    BY <1>6, <2>1, <2>2
<1>9. EndsInv'
  BY <1>1, <1>4, <1>5, <1>7 DEF EndsInv
<1>10. NoAttempts'
  BY <1>7 DEF NoAttempts
<1> QED
  BY <1>4, <1>8, <1>9, <1>10 DEF OutputInv

-----------------------------------------------------------------------------
(* The news of an end.                                                     *)

(* A task that ends by itself queues the news of it.                       *)
LEMMA TaskNews ==
  ASSUME Types, Routing, GridInv, EndsInv, NEW s \in 1 .. Len(sessions), Task(s)
  PROVE  EndsInv'
<1>1. /\ Len(sessions') = Len(sessions)
      /\ \A u \in 1 .. Len(sessions) : u # s => sessions'[u] = sessions[u]
  BY TaskChanges
<1>2. tabs' = tabs /\ closed' = closed
  BY DEF Task, layout
<1>3. PICK m \in Nat : m = Len(events)
  BY LenProperties DEF Types, NetOK
<1>4. /\ Len(events') \in {m, m + 1} /\ \A k \in 1 .. m : events'[k] = events[k]
      /\ events' = Append(events, Event(s, "closed", 0)) =>
           /\ Len(events') = m + 1
           /\ events'[m + 1].kind = "closed" /\ events'[m + 1].tag = sessions[s].tag
  <2>1. 0 \in 0 .. MaxData /\ "closed" \in {"data", "closed"} /\ "data" \in {"data", "closed"}
        /\ "closed" # "data"
    BY BoundAssumption
  <2>2. CASE events' = Append(events, Event(s, "closed", 0))
    BY <1>3, <2>1, <2>2, EventAppended
  <2>3. CASE events' # Append(events, Event(s, "closed", 0))
    <3>1. CASE events' = events
      BY <1>3, <2>3, <3>1
    <3>2. CASE /\ events' = Append(events, Event(s, "data", sessions[s].sent + 1))
               /\ sessions'[s].sent = sessions[s].sent + 1
      <4>1. sessions'[s] \in SessionType /\ sessions[s].sent \in Nat
        BY TaskChanges, ElementOfSeq, SessionInType
      <4>2. sessions[s].sent + 1 \in 0 .. MaxData /\ sessions[s].sent + 1 > 0
        BY <3>2, <4>1 DEF SessionType
      <4>3. Len(events') = m + 1 /\ \A k \in 1 .. m : events'[k] = events[k]
        BY <1>3, <2>1, <3>2, <4>2, EventAppended
      <4> QED
        BY <2>3, <4>3
    <3> QED
      BY <2>3, <3>1, <3>2, TaskOutput
  <2> QED
    BY <2>2, <2>3
<1>5. \A k \in 1 .. m : k \in 1 .. Len(events')
  BY <1>4
<1>6. ASSUME NEW i \in 1 .. Len(tabs), NewsQueued(i)
      PROVE  NewsQueued(i)'
  BY <1>3, <1>4, <1>5, <1>6 DEF NewsQueued
<1>7. ASSUME NEW i \in 1 .. Len(tabs), ~closed[i]
      PROVE  /\ NoClose(sessions'[tabs[i].session])
             /\ "new" \notin Keys /\ sessions'[tabs[i].session].phase = "over" => NewsQueued(i)'
  <2>1. tabs[i].session \in 1 .. Len(sessions) /\ NoClose(sessions[tabs[i].session])
    BY <1>7, TabInType DEF EndsInv
  <2>2. CASE tabs[i].session # s
    BY <1>1, <1>6, <1>7, <2>1, <2>2 DEF EndsInv
  <2>3. CASE tabs[i].session = s
    <3>1. sessions[s].tag = i /\ Len(tabs) \in Nat
      BY <2>3, ResultsAreASequence DEF GridInv, TabsTagged
    <3>2. sessions[s].phase # "connecting"
      BY <3>1 DEF Routing, ConnectingUntold, UntoldPending, AttemptPending
    <3>3. /\ NoClose(sessions'[s])
          /\ sessions'[s].phase = "over" =>
               \/ sessions[s].phase = "over"
               \/ events' = Append(events, Event(s, "closed", 0))
      BY <2>1, <2>3, <3>2, TaskEnds
    <3>4. events' = Append(events, Event(s, "closed", 0)) => NewsQueued(i)'
      <4>1. m + 1 \in 1 .. m + 1
        BY <1>3
      <4> QED
        BY <1>4, <3>1, <4>1 DEF NewsQueued
    <3>5. "new" \notin Keys /\ sessions[s].phase = "over" => NewsQueued(i)'
      BY <1>6, <1>7, <2>3 DEF EndsInv
    <3> QED
      BY <2>3, <3>3, <3>4, <3>5
  <2> QED
    BY <2>2, <2>3
<1> QED
  BY <1>2, <1>7 DEF EndsInv, NoClose

(* News that is taken from the queue closes its tab.                       *)
LEMMA HandleEventNews ==
  ASSUME Types, Routing, GridInv, EndsInv, HandleEvent
  PROVE  EndsInv'
<1>1. Kept /\ sessions' = sessions
  BY HandleEventKeeps, EventTaken
<1>2. PICK m \in Nat \ {0} : m = Len(events)
  BY EventTaken
<1>3. /\ Len(events') = m - 1
      /\ \A k \in 1 .. m - 1 : events'[k] = events[k + 1]
  BY <1>2, EventTaken
<1>4. \A k \in 1 .. m : k = 1 \/ (k - 1 \in 1 .. m - 1 /\ (k - 1) + 1 = k)
  BY <1>2
<1>5. ASSUME NEW i \in 1 .. Len(tabs), ~closed'[i], NewsQueued(i)
      PROVE  NewsQueued(i)'
  <2>1. PICK k \in 1 .. m : events[k].tag = i /\ events[k].kind = "closed"
    BY <1>2, <1>5 DEF NewsQueued
  <2>2. k # 1
    BY <1>5, <2>1, HeadFeeds
  <2>3. k - 1 \in 1 .. m - 1 /\ events'[k - 1] = events[k]
    BY <1>3, <1>4, <2>1, <2>2
  <2> QED
    BY <1>3, <2>1, <2>3 DEF NewsQueued
<1>6. ASSUME NEW i \in 1 .. Len(tabs), ~closed'[i]
      PROVE  ~closed[i] /\ tabs'[i].session = tabs[i].session
  BY <1>1, <1>6, EventTabs DEF Kept
<1> QED
  BY <1>1, <1>5, <1>6 DEF EndsInv, Kept

-----------------------------------------------------------------------------

(* At the start nothing was sent and no task has ended.                    *)
LEMMA InitOutput == Init => OutputInv /\ EndsInv
<1> SUFFICES ASSUME Init PROVE OutputInv /\ EndsInv
  OBVIOUS
<1>1. /\ Len(sessions) = StartTabs /\ Len(tabs) = StartTabs /\ StartTabs \in Nat
      /\ StartWidth \in Nat
  BY InitTypes, StartAssumption, WidthAssumption
<1>2. ASSUME NEW s \in 1 .. StartTabs
      PROVE  /\ sessions[s].sent = 0 /\ sessions[s].commands = << >>
             /\ sessions[s].phase = "running"
             /\ tabs[s].session = s /\ tabs[s].fed = << >>
  BY DEF Init, NewSession
<1>3. Len(events) = 0 /\ ~dialog /\ ~connecting
  BY DEF Init
<1>4. ASSUME NEW s \in 1 .. StartTabs
      PROVE  Flows(s, 0)
  <2>1. Pending(s, 0)
    BY <1>2, <1>3 DEF Pending
  <2> QED
    BY <1>1, <1>2, <2>1 DEF Flows, FedUpTo
<1>5. OutputInv
  BY <1>1, <1>3, <1>4 DEF OutputInv, NoAttempts
<1>6. EndsInv
  BY <1>1, <1>2 DEF EndsInv, NoClose
<1> QED
  BY <1>5, <1>6

(* Every arm and every task.                                               *)
LEMMA StepOutput ==
  ASSUME Types, ActiveIsOpen, Routing, GridInv, OutputInv, EndsInv, [Next]_vars
  PROVE  OutputInv' /\ EndsInv'
<1>1. CASE \E s \in DOMAIN sessions : Task(s)
  BY <1>1, TaskFlows, TaskNews, LenProperties DEF Types, NetOK
<1>2. CASE HandleEvent
  BY <1>2, HandleEventFlows, HandleEventNews
<1>3. CASE HandleResult
  BY <1>3, HandleResultFlows
<1>4. ASSUME Kept, Still, UNCHANGED <<events, dialog, connecting>>
      PROVE  OutputInv' /\ EndsInv'
  BY <1>4, StillFlows, StillEnds DEF OutputInv, NoAttempts
<1>5. CASE (DialogEnter \/ DialogEscape \/ DialogEdit \/ OpenDialog) /\ UNCHANGED screen
  <2>1. CASE StartAttempt
    BY <2>1, StartAttemptFlows
  <2>2. CASE Kept /\ UNCHANGED <<sessions, tabs, closed, events>> /\ NoAttempts'
    <3>1. Still
      BY <2>2 DEF Still, SentKept, FedKept, ClosesKept
    <3> QED
      BY <2>2, <3>1, StillFlows, StillEnds
  <2>3. ~StartAttempt => UNCHANGED <<sessions, tabs, closed, events>> /\ NoAttempts'
    BY <1>5 DEF DialogEnter, DialogEscape, DialogEdit, OpenDialog, StartAttempt, net, line,
                OutputInv, NoAttempts
  <2> QED
    BY <1>5, <2>1, <2>2, <2>3, DialogKey
<1>6. CASE TabKey /\ UNCHANGED screen
  BY <1>4, <1>6, TabKeyKeeps, TabKeyStill DEF TabKey, line
<1>7. CASE HandleResize
  BY <1>4, <1>7, HandleResizeKeeps, HandleResizeStill DEF HandleResize, line
<1>8. CASE (Quit /\ UNCHANGED screen) \/ Render \/ (\E w \in Widths : WindowResized(w)) \/ UNCHANGED vars
  <2>1. UNCHANGED <<net, layout, line>>
    BY <1>8 DEF Quit, Render, WindowResized, vars
  <2>2. Kept /\ Still
    BY <2>1 DEF Kept, SameRoute, Still, SentKept, FedKept, ClosesKept, net, layout
  <2> QED
    BY <1>4, <2>1, <2>2 DEF net, line
<1> QED
  BY <1>1, <1>2, <1>3, <1>5, <1>6, <1>7, <1>8 DEF Next, Loop, Key

(* So the flows go on for ever.                                            *)
LEMMA OutputIsInvariant ==
  Spec => [](Types /\ Routing /\ GridInv /\ OutputInv /\ EndsInv)
<1> DEFINE I == Types /\ ActiveIsOpen /\ Routing /\ GridInv /\ OutputInv /\ EndsInv
<1>1. Init => I
  BY InitTypes, InitRouting, InitGrid, InitOutput
<1>2. I /\ [Next]_vars => I'
  BY StepTypes, StepRouting, StepGrid, StepOutput
<1> QED
  BY <1>1, <1>2, PTL DEF Spec

(* However many tabs talk at once, in front or behind, and whatever is     *)
(* opened, closed or ended in between, an open tab is fed the output of    *)
(* its own session and of no other, in order, and none is lost between     *)
(* the first it got and the last that was sent (main.rs:507-518).          *)
THEOREM OutputStaysInOrder == Spec => []OutputInOrder
BY OutputIsInvariant, OutputInvIsEnough, PTL

(* main.rs:502-506, for the sessions main_loop is started with, when none  *)
(* is added by Ctrl+Alt+T: nothing that a session sends is missing from    *)
(* its open tab and the queue.                                             *)
THEOREM NoOutputIsLost ==
  ASSUME "new" \notin Keys
  PROVE  Spec => []OutputComplete
BY OutputIsInvariant, OutputInvIsEnough, PTL

(* README.md:36, for the same sessions: the end of a task, whatever ended  *)
(* it, closes its tab, or the news of it waits in the queue.  A task that  *)
(* says nothing was told to close by Ctrl+Alt+W, which closed its tab.     *)
THEOREM EndedTasksCloseTheirTab ==
  ASSUME "new" \notin Keys
  PROVE  Spec => []NoDeadTab
BY OutputIsInvariant, EndsInvIsEnough, PTL

-----------------------------------------------------------------------------
(* Draws.  The view is made of the layout, the lines fed to the tabs that  *)
(* are on the screen, and row 0.                                           *)
LEMMA ViewKept ==
  ASSUME UNCHANGED <<layout, line>>
  PROVE  View' = View
BY DEF View, Row0, Panes, layout, line

(* Output for a tab that is not on the screen.                             *)
LEMMA ViewBehind ==
  ASSUME UNCHANGED <<closed, active, split, line>>, DOMAIN tabs' = DOMAIN tabs,
         \A k \in DOMAIN Panes : tabs'[Panes[k]] = tabs[Panes[k]]
  PROVE  View' = View
<1>1. Row0' = Row0
  BY DEF Row0, line
<1>2. Panes' = Panes /\ split' = split
  BY DEF Panes
<1>3. [k \in DOMAIN Panes' |-> [slot |-> Panes'[k], fed |-> tabs'[Panes'[k]].fed,
                               cols |-> tabs'[Panes'[k]].cols]]
      = [k \in DOMAIN Panes |-> [slot |-> Panes[k], fed |-> tabs[Panes[k]].fed,
                                 cols |-> tabs[Panes[k]].cols]]
  BY <1>2
<1> QED
  BY <1>1, <1>2, <1>3 DEF View

(* An event changes the view only if it asks for a draw, or if it is       *)
(* output for the pane of the split that has not the keys.                 *)
LEMMA EventDraws ==
  ASSUME Types, ActiveIsOpen, ~done, HandleEvent
  PROVE  View' = View \/ dirty' \/ FedBesideActive
<1> DEFINE e == Head(events)
<1>1. /\ UNCHANGED <<tabs, closed>> \/ Fed(e) \/ TabEnds(e)
      /\ UNCHANGED <<split, line>> /\ LoopTop(active) /\ ~closed[active]
      /\ events # << >> /\ events' = Tail(events)
  BY DEF HandleEvent, ActiveIsOpen
<1>2. active \in DOMAIN tabs /\ DOMAIN tabs' = DOMAIN tabs
  BY HandleEventKeeps, LenProperties DEF Types, LayoutOK, Kept
<1>3. CASE UNCHANGED <<tabs, closed>>
  <2>1. active' = active
    BY <1>1, <1>3 DEF LoopTop
  <2> QED
    BY <1>1, <1>3, <2>1, ViewKept DEF layout
<1>4. CASE Fed(e)
  <2>1. closed' = closed /\ (e.tag = active => dirty') /\ e.kind = "data"
    BY <1>4 DEF Fed
  <2>2. active' = active
    BY <1>1, <2>1 DEF LoopTop
  <2>3. \A i \in DOMAIN tabs : i # e.tag => tabs'[i] = tabs[i]
    BY <1>4 DEF Fed
  <2>4. CASE split = NoSplit /\ e.tag # active
    <3>1. \A k \in DOMAIN Panes : Panes[k] = active
      BY <2>4 DEF Panes
    <3> HIDE DEF e
    <3> QED
      BY <1>1, <1>2, <2>1, <2>2, <2>3, <2>4, <3>1, ViewBehind
  <2>5. CASE split # NoSplit /\ e.tag \notin {split.l, split.r}
    <3>1. \A k \in DOMAIN Panes : Panes[k] \in {split.l, split.r}
      BY <2>5 DEF Panes
    <3>2. {split.l, split.r} \subseteq DOMAIN tabs
      BY <2>5, LenProperties DEF Types, LayoutOK
    <3> HIDE DEF e
    <3> QED
      BY <1>1, <1>2, <2>1, <2>2, <2>3, <2>5, <3>1, <3>2, ViewBehind
  <2>6. CASE split # NoSplit /\ e.tag \in {split.l, split.r} /\ e.tag # active
    BY <1>1, <2>1, <2>6 DEF FedBesideActive
  <2> QED
    BY <2>1, <2>4, <2>5, <2>6
<1>5. CASE TabEnds(e)
  BY <1>5 DEF TabEnds
<1> QED
  BY <1>1, <1>3, <1>4, <1>5

(* So does every step, but for Enter on an empty dialog.                   *)
LEMMA StepDraws ==
  ASSUME Types, ActiveIsOpen, [Next]_vars
  PROVE  View' = View \/ dirty' \/ FedBesideActive \/ BlankTarget
<1>1. CASE (\E s \in DOMAIN sessions : Task(s)) \/ (\E w \in Widths : WindowResized(w)) \/ UNCHANGED vars
  BY <1>1, ViewKept DEF Task, WindowResized, vars
<1>2. CASE Quit \/ Render
  BY <1>2, ViewKept DEF Quit, Render
<1>3. CASE ~done /\ HandleEvent
  BY <1>3, EventDraws
<1>4. CASE HandleResult \/ HandleResize
  BY <1>4 DEF HandleResult, HandleResize
<1>5. CASE DialogEnter
  <2>1. dirty' \/ sessions' = sessions
    BY <1>5 DEF DialogEnter
  <2>2. dialog /\ ~dialog'
    BY <1>5 DEF DialogEnter
  <2> QED
    BY <2>1, <2>2 DEF BlankTarget
<1>6. CASE DialogEscape \/ DialogEdit \/ OpenDialog
  BY <1>6 DEF DialogEscape, DialogEdit, OpenDialog
<1>7. CASE ~done /\ TabKey
  <2>1. CASE Type
    <3>1. UNCHANGED <<tabs, closed, split, line>> /\ active' = active
      BY <1>7, <2>1 DEF TabKey, Type, LoopTop, ActiveIsOpen
    <3> QED
      BY <3>1, ViewKept DEF layout
  <2>2. ~Type => dirty'
    BY <1>7 DEF TabKey, SwitchTab, JumpTo, CloseTab, ToggleSplit, ToggleFocus
  <2> QED
    BY <2>1, <2>2
<1> QED
  BY <1>1, <1>2, <1>3, <1>4, <1>5, <1>6, <1>7 DEF Next, Loop, Key

(* Lazy rendering (main.rs:467-468): with any tabs, dialogs, attempts and  *)
(* split, no step of the loop or of a task changes what draw would put on  *)
(* the screen without asking for a draw, except the two that the property  *)
(* names; output for a tab that is not on the screen asks for none and     *)
(* changes nothing that is drawn.                                          *)
THEOREM ChangesAskForADraw == Spec => ChangesAreDrawn
<1> DEFINE I == Types /\ ActiveIsOpen
<1>1. Init => I
  BY InitTypes
<1>2. I /\ [Next]_vars => I'
  BY StepTypes
<1>3. I /\ [Next]_vars => [View' # View => dirty' \/ FedBesideActive \/ BlankTarget]_vars
  BY StepDraws
<1> QED
  BY <1>1, <1>2, <1>3, PTL DEF Spec, ChangesAreDrawn
=============================================================================
