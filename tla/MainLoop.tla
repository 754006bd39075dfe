------------------------------ MODULE MainLoop ------------------------------
(***************************************************************************)
(* The console front-end, src/src/main.rs: main_loop with its tabs, split  *)
(* view and new-tab dialog, one background task per SSH session            *)
(* (spawn_tab_task), and the connection attempts of open_new_tab.  They    *)
(* meet in unbounded channels only: events (tasks to main loop, tagged     *)
(* with a tab index), results (connection attempts to main loop) and one   *)
(* queue of commands per task.                                             *)
(*                                                                         *)
(* main_loop's select! is biased, but tokio's cooperative budget and an    *)
(* event that arrives after its arm was polled let a later arm win, so     *)
(* every arm that is ready may run.  Tab indices count from 1 here.  Only  *)
(* the width of the terminal is modelled, rows are treated alike;          *)
(* scroll_offset and the scrollback are left out.                          *)
(***************************************************************************)
EXTENDS Integers, Sequences

CONSTANTS StartTabs,    \* targets given on the command line
          Widths,       \* widths of the terminal, in columns
          StartWidth,   \* its width when main_loop starts
          Breaks,       \* whether a connection may break under a session
          Keys,         \* bound: the keys the user presses
          MaxSessions,  \* bound: connection attempts, those at startup included
          MaxData,      \* bound: pieces of output of a session
          MaxCommands,  \* bound: commands waiting for a task when the user acts
          MaxResizes    \* bound: resizes waiting in the input stream

ASSUME StartAssumption == StartTabs \in Nat \ {0} /\ StartTabs <= MaxSessions
ASSUME WidthAssumption == Widths \subseteq Nat \ {0} /\ StartWidth \in Widths
ASSUME BreaksAssumption == Breaks \in BOOLEAN
ASSUME KeysAssumption ==
  Keys \subseteq {"new", "switch", "jump", "close", "split", "focus", "type", "quit"}
ASSUME BoundAssumption ==
  MaxSessions \in Nat /\ MaxData \in Nat /\ MaxCommands \in Nat /\ MaxResizes \in Nat

VARIABLES
  sessions,    \* the sessions and their tasks, in the order of the attempts
  events,      \* event_tx/event_rx
  results,     \* new_tab_tx/new_tab_rx: sessions that are ready, 0 for a failure
  tabs, closed, active, split,
  dialog,      \* dialog.is_some()
  failed,      \* dialog_error.is_some()
  connecting,
  dirty,
  term,        \* the width of the terminal now
  resizes,     \* the widths that wait in the input stream
  done         \* main_loop has returned

net == <<sessions, events, results>>
layout == <<tabs, closed, active, split>>
line == <<dialog, failed, connecting>>
screen == <<term, resizes>>
vars == <<net, layout, line, dirty, screen, done>>

-----------------------------------------------------------------------------
(* session_manager.                                                        *)

NoSplit == [l |-> 0, r |-> 0, focus |-> "left"]

SplitWidths(cols) ==
  IF cols < 3 THEN [l |-> cols, r |-> 0]
  ELSE [l |-> (cols - 1) \div 2, r |-> cols - 1 - (cols - 1) \div 2]

(* apply_action, k times.                                                  *)
Ahead(a, n, k) == ((a - 1 + k) % n) + 1
Behind(a, n, k) == ((a - 1 + k * (n - 1)) % n) + 1

(* next_open_tab: the first open tab in either direction; a itself is the  *)
(* last candidate.                                                         *)
Nearest(c, a, Step(_, _, _)) ==
  LET n == Len(c)
      open == {k \in 1..n : ~c[Step(a, n, k)]}
  IN IF open = {} THEN a
     ELSE Step(a, n, CHOOSE k \in open : \A j \in open : k <= j)

NextOpen(c, a) == Nearest(c, a, Ahead)
PreviousOpen(c, a) == Nearest(c, a, Behind)

-----------------------------------------------------------------------------
(* What draw would put on the screen: row 0, and the focused or both panes.*)
Row0 ==
  CASE dialog -> [kind |-> "dialog", open |-> {}, active |-> 0]
    [] ~dialog /\ failed -> [kind |-> "error", open |-> {}, active |-> 0]
    [] ~dialog /\ ~failed /\ connecting -> [kind |-> "connecting", open |-> {}, active |-> 0]
    [] OTHER -> [kind |-> "tabs", open |-> {i \in DOMAIN tabs : ~closed[i]}, active |-> active]

Panes == IF split = NoSplit THEN <<active>> ELSE <<split.l, split.r>>

View ==
  [row0 |-> Row0, focus |-> split.focus,
   panes |-> [k \in DOMAIN Panes |-> [slot |-> Panes[k], fed |-> tabs[Panes[k]].fed,
                                      cols |-> tabs[Panes[k]].cols]]]

-----------------------------------------------------------------------------
(* The task of a session.  It is connecting, then running; broken when the *)
(* connection is gone and the task has not noticed; over when it returned. *)
Alive(s) == sessions[s].phase \in {"running", "broken"}

NewSession(tag, cols) ==
  [phase |-> "connecting", told |-> FALSE, tag |-> tag, pty |-> cols, sent |-> 0,
   commands |-> << >>]

(* Sending to a task that has returned does nothing.                       *)
WithCommand(s, c) ==
  IF Alive(s) THEN [sessions[s] EXCEPT !.commands = Append(@, c)] ELSE sessions[s]

(* Mutants: the command is not sent.                                       *)
ResizeCommand_None(s, cols) == sessions[s]
CloseCommand_None(s) == sessions[s]

ResizeCommand(s, cols) == WithCommand(s, [kind |-> "resize", cols |-> cols])
CloseCommand(s) == WithCommand(s, [kind |-> "close"])

(* open_new_tab: the task starts, and may run, before the result is sent.  *)
Connect(s) ==
  /\ sessions[s].phase = "connecting"
  /\ sessions' = [sessions EXCEPT ![s].phase = "running"]
  /\ UNCHANGED <<events, results>>

Report(s) ==
  /\ sessions[s].phase # "connecting"
  /\ ~sessions[s].told
  /\ sessions' = [sessions EXCEPT ![s].told = TRUE]
  /\ results' = Append(results, s)
  /\ UNCHANGED events

ConnectFails(s) ==
  /\ sessions[s].phase = "connecting"
  /\ sessions' = [sessions EXCEPT ![s].phase = "over", ![s].told = TRUE]
  /\ results' = Append(results, 0)
  /\ UNCHANGED events

Event(s, kind, n) == [tag |-> sessions[s].tag, session |-> s, kind |-> kind, n |-> n]

Over(s) == [sessions EXCEPT ![s].phase = "over", ![s].commands = << >>]

(* The session's own events come first in the select!.                     *)
Data(s) ==
  /\ sessions[s].phase = "running"
  /\ sessions[s].sent < MaxData
  /\ sessions' = [sessions EXCEPT ![s].sent = @ + 1]
  /\ events' = Append(events, Event(s, "data", sessions[s].sent + 1))
  /\ UNCHANGED results

Break(s) ==
  /\ Breaks
  /\ sessions[s].phase = "running"
  /\ sessions' = [sessions EXCEPT ![s].phase = "broken"]
  /\ UNCHANGED <<events, results>>

(* Closed, whether the server closes the channel or next_event is None.    *)
Ends(s) ==
  /\ Alive(s)
  /\ sessions' = Over(s)
  /\ events' = Append(events, Event(s, "closed", 0))
  /\ UNCHANGED results

(* Mutant: a task that cannot send input returns without a word.           *)
Farewell_None(s, c) == events

(* What the task sends as it returns: nothing after a close, Disconnected  *)
(* when input could not be sent.                                           *)
Farewell(s, c) == IF c.kind = "close" THEN events ELSE Append(events, Event(s, "closed", 0))

(* The next command: input that cannot be sent ends the task, a resize     *)
(* that cannot be sent is only logged.                                     *)
Command(s) ==
  /\ Alive(s)
  /\ sessions[s].commands # << >>
  /\ LET c == Head(sessions[s].commands)
         up == sessions[s].phase = "running"
     IN \/ /\ c.kind = "close" \/ (c.kind = "input" /\ ~up)
           /\ sessions' = Over(s)
           /\ events' = Farewell(s, c)
        \/ /\ c.kind = "resize" \/ (c.kind = "input" /\ up)
           /\ sessions' =
                [sessions EXCEPT
                   ![s].commands = Tail(@),
                   ![s].pty = IF c.kind = "resize" /\ up THEN c.cols ELSE @]
           /\ UNCHANGED events
  /\ UNCHANGED results

Task(s) ==
  /\ ~done
  /\ \/ Connect(s) \/ Report(s) \/ ConnectFails(s)
     \/ Data(s) \/ Break(s) \/ Ends(s) \/ Command(s)
  /\ UNCHANGED <<layout, line, dirty, screen, done>>

-----------------------------------------------------------------------------
(* Mutant: a closed tab may stay in front.                                 *)
LoopTop_NoMove(a) ==
  /\ active' = a
  /\ done' = \A i \in DOMAIN closed' : closed'[i]

(* The main loop.  Every arm is followed by the top of the loop, which     *)
(* returns when all tabs are closed and moves away from a closed one.      *)
LoopTop(a) ==
  /\ active' = IF closed'[a] THEN NextOpen(closed', a) ELSE a
  /\ done' = \A i \in DOMAIN closed' : closed'[i]

(* resize_pane for the tabs of DOMAIN cols: the grid, and a command to the *)
(* task.                                                                   *)
ResizePanes(cols) ==
  /\ tabs' = [i \in DOMAIN tabs |->
                IF i \in DOMAIN cols THEN [tabs[i] EXCEPT !.cols = cols[i]] ELSE tabs[i]]
  /\ sessions' =
       [s \in DOMAIN sessions |->
          IF \E i \in DOMAIN cols : tabs[i].session = s
          THEN ResizeCommand(s, cols[CHOOSE i \in DOMAIN cols : tabs[i].session = s])
          ELSE sessions[s]]

(* Mutant: the panes keep their widths.                                    *)
LeaveSplit_KeepsWidths == UNCHANGED <<tabs, sessions>> /\ split' = NoSplit

(* Back to one full-width view.                                            *)
LeaveSplit ==
  IF split = NoSplit THEN UNCHANGED <<tabs, sessions, split>>
  ELSE /\ ResizePanes([i \in {split.l, split.r} |-> term])
       /\ split' = NoSplit

(* Mutant: only the active tab is fed.                                     *)
Fed_OnlyActive(e) ==
  /\ e.kind = "data"
  /\ IF e.tag = active
     THEN tabs' = [tabs EXCEPT ![e.tag].fed = Append(@, [session |-> e.session, n |-> e.n])]
     ELSE UNCHANGED tabs
  /\ dirty' = (dirty \/ e.tag = active)
  /\ UNCHANGED closed

Fed(e) ==
  /\ e.kind = "data"
  /\ tabs' = [tabs EXCEPT ![e.tag].fed = Append(@, [session |-> e.session, n |-> e.n])]
  /\ dirty' = (dirty \/ e.tag = active)
  /\ UNCHANGED closed

(* Mutant: a tab that goes from the tab bar asks for no draw.              *)
TabEnds_NotDrawn(e) ==
  /\ e.kind = "closed"
  /\ closed' = [closed EXCEPT ![e.tag] = TRUE]
  /\ UNCHANGED <<tabs, dirty>>

TabEnds(e) ==
  /\ e.kind = "closed"
  /\ closed' = [closed EXCEPT ![e.tag] = TRUE]
  /\ dirty' = TRUE
  /\ UNCHANGED tabs

Unwanted(e) == e.tag > Len(tabs) \/ (e.tag <= Len(tabs) /\ closed[e.tag])

HandleEvent ==
  /\ events # << >>
  /\ events' = Tail(events)
  /\ LET e == Head(events)
     IN \/ Unwanted(e) /\ UNCHANGED <<tabs, closed, dirty>>
        \/ ~Unwanted(e) /\ (Fed(e) \/ TabEnds(e))
  /\ UNCHANGED <<sessions, results, split, line, screen>>
  /\ LoopTop(active)

NewTab(s) == [session |-> s, cols |-> sessions[s].pty, fed |-> << >>]

HandleResult ==
  /\ results # << >>
  /\ results' = Tail(results)
  /\ connecting' = FALSE
  /\ dirty' = TRUE
  /\ LET s == Head(results)
     IN \/ /\ s # 0
           /\ tabs' = Append(tabs, NewTab(s))
           /\ closed' = Append(closed, FALSE)
           /\ LoopTop(Len(tabs) + 1)
           /\ UNCHANGED failed
        \/ /\ s = 0
           /\ failed' = TRUE
           /\ UNCHANGED <<tabs, closed>>
           /\ LoopTop(active)
  /\ UNCHANGED <<sessions, events, split, dialog, screen>>

-----------------------------------------------------------------------------
(* Keys.  An open dialog takes them all.                                   *)

(* Enter.  A blank target starts nothing; parse_target takes any other.    *)
DialogEnter ==
  /\ dialog
  /\ dialog' = FALSE
  /\ failed' = FALSE
  /\ \/ UNCHANGED <<sessions, connecting, dirty>>
     \/ /\ Len(sessions) < MaxSessions
        /\ sessions' = Append(sessions, NewSession(Len(tabs) + 1, term))
        /\ connecting' = TRUE
        /\ dirty' = TRUE
  /\ UNCHANGED <<events, results, tabs, closed, split>>
  /\ LoopTop(active)

DialogEscape ==
  /\ dialog
  /\ dialog' = FALSE
  /\ failed' = FALSE
  /\ dirty' = TRUE
  /\ UNCHANGED <<net, connecting, tabs, closed, split>>
  /\ LoopTop(active)

(* A character typed or erased.                                            *)
DialogEdit ==
  /\ dialog
  /\ dirty' = TRUE
  /\ UNCHANGED <<net, line, tabs, closed, split>>
  /\ LoopTop(active)

(* Mutant: a second attempt may start while one is open.                   *)
OpenDialog_Always ==
  /\ "new" \in Keys
  /\ ~dialog
  /\ dialog' = TRUE
  /\ failed' = FALSE
  /\ dirty' = TRUE
  /\ UNCHANGED <<net, connecting, tabs, closed, split>>
  /\ LoopTop(active)

(* Ctrl+Alt+T.                                                             *)
OpenDialog ==
  /\ "new" \in Keys
  /\ ~dialog
  /\ ~connecting
  /\ dialog' = TRUE
  /\ failed' = FALSE
  /\ dirty' = TRUE
  /\ UNCHANGED <<net, connecting, tabs, closed, split>>
  /\ LoopTop(active)

(* Ctrl+PageUp, Ctrl+PageDown.                                             *)
SwitchTab ==
  /\ "switch" \in Keys
  /\ LeaveSplit
  /\ dirty' = TRUE
  /\ UNCHANGED closed
  /\ \E a \in {NextOpen(closed, active), PreviousOpen(closed, active)} : LoopTop(a)

(* Ctrl+Alt+1 to 9.                                                        *)
JumpTo(i) ==
  /\ "jump" \in Keys
  /\ i <= Len(tabs)
  /\ ~closed[i]
  /\ LeaveSplit
  /\ dirty' = TRUE
  /\ UNCHANGED closed
  /\ LoopTop(i)

(* Ctrl+Alt+W.  The other pane of the split, if any, gets the full width.  *)
CloseTab ==
  LET own == tabs[active].session
      other == IF split.l = active THEN split.r ELSE split.l
      otherSession == tabs[other].session
      inSplit == split # NoSplit /\ active \in {split.l, split.r}
  IN /\ "close" \in Keys
     /\ closed' = [closed EXCEPT ![active] = TRUE]
     /\ dirty' = TRUE
     /\ \/ /\ inSplit
           /\ tabs' = [tabs EXCEPT ![other].cols = term]
           /\ sessions' =
                [sessions EXCEPT
                   ![own] = CloseCommand(own),
                   ![otherSession] = ResizeCommand(otherSession, term)]
           /\ split' = NoSplit
        \/ /\ ~inSplit
           /\ sessions' = [sessions EXCEPT ![own] = CloseCommand(own)]
           /\ UNCHANGED <<tabs, split>>
     /\ LoopTop(active)

(* Mutant: a tab may be split with itself.                                 *)
CanSplit_Alone(partner, w) == w.r # 0

CanSplit(partner, w) == partner # active /\ w.r # 0

(* Ctrl+Alt+S.                                                             *)
ToggleSplit ==
  LET partner == NextOpen(closed, active)
      w == SplitWidths(term)
  IN /\ "split" \in Keys
     /\ \/ split # NoSplit /\ LeaveSplit
        \/ /\ split = NoSplit
           /\ CanSplit(partner, w)
           /\ ResizePanes([i \in {active, partner} |-> IF i = active THEN w.l ELSE w.r])
           /\ split' = [l |-> active, r |-> partner, focus |-> "left"]
     /\ dirty' = TRUE
     /\ UNCHANGED closed
     /\ LoopTop(active)

(* Ctrl+Alt+O.                                                             *)
ToggleFocus ==
  /\ "focus" \in Keys
  /\ split # NoSplit
  /\ split' = [split EXCEPT !.focus = IF @ = "left" THEN "right" ELSE "left"]
  /\ dirty' = TRUE
  /\ UNCHANGED <<tabs, sessions, closed>>
  /\ LoopTop(IF split'.focus = "left" THEN split.l ELSE split.r)

(* Any other key is input for the active tab.                              *)
Type ==
  LET s == tabs[active].session
  IN /\ "type" \in Keys
     /\ sessions' = [sessions EXCEPT ![s] = WithCommand(s, [kind |-> "input"])]
     /\ UNCHANGED <<tabs, closed, split, dirty>>
     /\ LoopTop(active)

TabKey ==
  /\ ~dialog
  /\ \A s \in DOMAIN sessions : Len(sessions[s].commands) < MaxCommands
  /\ \/ SwitchTab \/ CloseTab \/ ToggleSplit \/ ToggleFocus \/ Type
     \/ \E i \in 1..9 : JumpTo(i)
  /\ UNCHANGED <<events, results, line>>

(* Ctrl+Alt+Q, or the end of the input stream: main_loop returns.          *)
Quit ==
  /\ "quit" \in Keys
  /\ done' = TRUE
  /\ UNCHANGED <<net, layout, line, dirty>>

Key == (DialogEnter \/ DialogEscape \/ DialogEdit \/ OpenDialog \/ TabKey \/ Quit) /\ UNCHANGED screen

-----------------------------------------------------------------------------
HandleResize ==
  LET cols == Head(resizes)
      w == SplitWidths(cols)
      Width(i) == IF i = split.l THEN w.l ELSE IF i = split.r THEN w.r ELSE cols
  IN /\ resizes # << >>
     /\ resizes' = Tail(resizes)
     /\ ResizePanes([i \in {j \in DOMAIN tabs : ~closed[j]} |-> Width(i)])
     /\ dirty' = TRUE
     /\ UNCHANGED <<closed, split, events, results, line, term>>
     /\ LoopTop(active)

Render ==
  /\ dirty
  /\ dirty' = FALSE
  /\ UNCHANGED <<net, layout, line, screen, done>>

(* The user resizes the terminal window.                                   *)
WindowResized(w) ==
  /\ ~done
  /\ w # term
  /\ \A s \in DOMAIN sessions : Len(sessions[s].commands) < MaxCommands
  /\ Len(resizes) < MaxResizes
  /\ term' = w
  /\ resizes' = Append(resizes, w)
  /\ UNCHANGED <<net, layout, line, dirty, done>>

Loop == ~done /\ (HandleEvent \/ HandleResult \/ Key \/ HandleResize \/ Render)

Init ==
  /\ sessions = [s \in 1..StartTabs |->
                   [NewSession(s, StartWidth) EXCEPT !.phase = "running", !.told = TRUE]]
  /\ events = << >> /\ results = << >>
  /\ tabs = [i \in 1..StartTabs |-> [session |-> i, cols |-> StartWidth, fed |-> << >>]]
  /\ closed = [i \in 1..StartTabs |-> FALSE]
  /\ active = 1
  /\ split = NoSplit
  /\ dialog = FALSE /\ failed = FALSE /\ connecting = FALSE
  /\ dirty = TRUE
  /\ term = StartWidth /\ resizes = << >>
  /\ done = FALSE

Next ==
  \/ \E s \in DOMAIN sessions : Task(s)
  \/ Loop
  \/ \E w \in Widths : WindowResized(w)

Spec == Init /\ [][Next]_vars

(* The task is in send_input, or about to be.                              *)
Sending(s) ==
  /\ Alive(s)
  /\ sessions[s].commands # << >>
  /\ Head(sessions[s].commands).kind = "input"

(* The main loop's event arm, which biased puts first, and the tasks are   *)
(* not starved, and a task whose connection is gone gets to know of it     *)
(* (keepalive).  resize and close hand a message to the connection's own   *)
(* queue and go on; send_input waits inside the arm until the server's     *)
(* window has room, so of input nothing is assumed, nor of the user, a     *)
(* server or an attempt.                                                   *)
Fairness ==
  /\ WF_vars(~done /\ HandleEvent)
  /\ \A s \in 1..MaxSessions :
       /\ WF_vars(s \in DOMAIN sessions /\ ~Sending(s) /\ Command(s) /\ Task(s))
       /\ WF_vars(s \in DOMAIN sessions /\ sessions[s].phase = "broken" /\ Ends(s) /\ Task(s))

FairSpec == Spec /\ Fairness

-----------------------------------------------------------------------------
Commands ==
  [kind : {"close", "input"}] \cup [kind : {"resize"}, cols : Nat]

(* Types, and that the two panes of a split are two tabs.                  *)
TypeOK ==
  /\ sessions \in Seq([phase : {"connecting", "running", "broken", "over"}, told : BOOLEAN,
                       tag : Nat \ {0}, pty : Nat, sent : 0..MaxData, commands : Seq(Commands)])
  /\ events \in Seq([tag : Nat \ {0}, session : DOMAIN sessions, kind : {"data", "closed"},
                     n : 0..MaxData])
  /\ results \in Seq({0} \cup DOMAIN sessions)
  /\ tabs \in Seq([session : DOMAIN sessions, cols : Nat,
                   fed : Seq([session : DOMAIN sessions, n : 1..MaxData])])
  /\ closed \in [DOMAIN tabs -> BOOLEAN]
  /\ active \in DOMAIN tabs
  /\ \/ split = NoSplit
     \/ split \in [l : DOMAIN tabs, r : DOMAIN tabs, focus : {"left", "right"}] /\ split.l # split.r
  /\ dialog \in BOOLEAN /\ failed \in BOOLEAN /\ connecting \in BOOLEAN
  /\ dirty \in BOOLEAN /\ done \in BOOLEAN
  /\ term \in Widths /\ resizes \in Seq(Widths)

(* An event goes to the tab of the session it came from, also when tabs    *)
(* were added and closed since the task was given its index: tabs are      *)
(* never removed, and a second attempt never starts while one is open.     *)
EventsReachTheirTab ==
  \A k \in DOMAIN events :
    events[k].tag <= Len(tabs) => tabs[events[k].tag].session = events[k].session

(* What a session sends after its first n pieces of output reaches tab i:  *)
(* some of it has been fed to the grid, and the rest is queued; in order,  *)
(* without a gap or a repetition.                                          *)
Arrives(i, n) ==
  LET s == tabs[i].session
      fed == tabs[i].fed
      queued == {k \in DOMAIN events : events[k].tag = i /\ events[k].kind = "data"}
  IN /\ \A k \in DOMAIN fed : fed[k] = [session |-> s, n |-> n + k]
     /\ n + Len(fed) <= sessions[s].sent
     /\ {events[k].n : k \in queued} = n + Len(fed) + 1 .. sessions[s].sent
     /\ \A k \in queued : events[k].session = s
     /\ \A j, k \in queued : j < k => events[j].n < events[k].n

(* What reaches a tab is the latest output of its own session: only what   *)
(* came before the tab was there can be missing.                           *)
OutputInOrder ==
  \A i \in DOMAIN tabs : ~closed[i] => \E n \in 0..sessions[tabs[i].session].sent : Arrives(i, n)

(* main.rs:502-506: every tab's output is fed to its grid, whether it is   *)
(* shown or not, so that switching to it shows current output.             *)
OutputComplete == \A i \in DOMAIN tabs : ~closed[i] => Arrives(i, 0)

(* README.md:36, each tab is a session with its own background task: once  *)
(* the queued events are handled, a tab whose task has returned is closed. *)
NoDeadTab ==
  \A i \in DOMAIN tabs :
    /\ sessions[tabs[i].session].phase = "over"
    /\ \A k \in DOMAIN events : events[k].tag # i
    => closed[i]

(* The loop never waits with a closed tab in front, whatever closed it.    *)
ActiveIsOpen == ~done => ~closed[active]

(* The PTY of session x gets width w: from the last resize that waits for  *)
(* its task, or it has it already.                                         *)
GetsWidth(x, w) ==
  LET waiting == {k \in DOMAIN x.commands : x.commands[k].kind = "resize"}
  IN \/ waiting = {} /\ x.pty = w
     \/ \E k \in waiting : x.commands[k].cols = w /\ \A j \in waiting : j <= k

(* The grid of an open tab has the width its PTY has or is about to get:   *)
(* wherever core.resize is called, the command goes with it.               *)
GridMatchesPty ==
  \A i \in DOMAIN tabs :
    LET x == sessions[tabs[i].session]
    IN ~closed[i] /\ x.phase = "running" => GetsWidth(x, tabs[i].cols)

(* Once the input stream has no resize left, every open pane is as wide as *)
(* its place on the screen (README.md:41-42), and every tab that was there *)
(* at the start and is not in a pane has the whole width.  A tab that      *)
(* connected during a resize may miss it.                                  *)
PanesFit ==
  resizes = << >> =>
    \A i \in DOMAIN tabs :
      ~closed[i] => /\ i = split.l => tabs[i].cols = SplitWidths(term).l
                    /\ i = split.r => tabs[i].cols = SplitWidths(term).r
                    /\ i \notin {split.l, split.r} /\ i <= StartTabs => tabs[i].cols = term

(* session_manager/mod.rs:166-168: rather refuse to split than produce a   *)
(* degenerate layout.                                                      *)
NoEmptyPane == \A i \in DOMAIN tabs : tabs[i].cols > 0

(* main.rs:662-666: never "silently desync from the split pair": the tab   *)
(* that gets the keys is one of the two on the screen.                     *)
SplitShowsActive == ~done /\ split # NoSplit => active = IF split.focus = "left" THEN split.l ELSE split.r

(* Output for a pane of the split that has not the keys, and Enter on an   *)
(* empty dialog: the two steps after which main_loop does not set dirty.   *)
FedBesideActive ==
  /\ split # NoSplit /\ split' = split
  /\ events # << >> /\ events' = Tail(events)
  /\ Head(events).kind = "data"
  /\ Head(events).tag \in {split.l, split.r} \ {active}

BlankTarget == dialog /\ ~dialog' /\ sessions' = sessions

(* Lazy rendering (main.rs:467-468): with tabs, dialogs, attempts and the  *)
(* split, a step that changes what draw would put on the screen asks for a *)
(* draw, except for those two.                                             *)
ChangesAreDrawn == [][View' # View => dirty' \/ FedBesideActive \/ BlankTarget]_vars

(* main.rs:502-503, "Any tab's traffic marks that tab dirty": without an   *)
(* exception.  It fails in a split, where two tabs are drawn.              *)
TrafficIsDrawn == [][View' # View => dirty']_vars

(* A tab whose session has ended does not stay open for ever.              *)
EndedSessionsLeave ==
  \A i \in 1..StartTabs : sessions[i].phase = "over" ~> (closed[i] \/ done)

(* A tab the user closed does not leave its connection behind, whatever    *)
(* was queued before the close, unless a server that takes no input holds  *)
(* the task in send_input for ever.                                        *)
ClosedTabsDisconnect ==
  \A i \in 1..StartTabs :
    []<>~Sending(i) => (closed[i] ~> (sessions[i].phase = "over" \/ done))
=============================================================================
