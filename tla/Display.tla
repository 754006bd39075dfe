------------------------------ MODULE Display -------------------------------
(***************************************************************************)
(* The parts of HyperTerm that compute and keep no state of their own,     *)
(* each asked with every input of a set, beside the renderer, which does:  *)
(* a run either draws pages or asks one question.                          *)
(***************************************************************************)
EXTENDS Renderer, Reflow, TextSearch, SshConfig, CellCode, TabBar

CONSTANTS Tabs,       \* tabs to show: see Reflow!TabFrame
          Histories,  \* lines to rewrap
          NewWidths,  \* the widths to rewrap them to
          Buffers,    \* lines to search
          Searches,   \* [query, case_sensitive, whole_word]
          Files,      \* OpenSSH configurations
          Users,      \* default user names
          NameChars,  \* the characters of names and globs
          StyledLines,
          Bars        \* [lengths, active, width]

(* The tabs have a screen of rows and columns, over lines of any length.   *)
TabCells ==
  UNION {Range(line.cells) : line \in UNION {Range(t.history) : t \in Tabs}}
    \union UNION {Range(row) : row \in UNION {Range(t.grid) : t \in Tabs}}

ASSUME TabsHaveScreens ==
  \A t \in Tabs :
    /\ t.history \in Seq(Line(TabCells))
    /\ t.rows \in Nat /\ t.cols \in Nat /\ t.offset \in Nat
    /\ t.grid \in Seq(Seq(TabCells)) /\ Len(t.grid) = t.rows
    /\ \A y \in 1 .. t.rows : Len(t.grid[y]) = t.cols

HistoryCells == UNION {Range(line.cells) : line \in UNION {Range(h) : h \in Histories}}

ASSUME HistoriesAreLines == Histories \subseteq Seq(Line(HistoryCells))

(* A window of no width is not rewrapped to.                               *)
ASSUME WidthsArePositive == NewWidths \subseteq Nat \ {0}

ASSUME BarsHaveTabs ==
  \A b \in Bars : b.lengths \in Seq(Nat) /\ b.active \in 1 .. Len(b.lengths) /\ b.width \in Nat

ASSUME FilesHaveLines ==
  \A f \in Files : f \in Seq(Range(f)) /\ \A i \in 1 .. Len(f) : IsLine(f[i], NameChars)

ASSUME UsersAreNames == Users \subseteq Seq(NameChars)

StyledChars == {cell.ch : cell \in UNION {Range(line.cells) : line \in StyledLines}}

ASSUME StyledLinesAreLines == StyledLines \subseteq Line(StyledCell(StyledChars))

Nothing == [asked |-> "nothing"]

VARIABLE question

dvars == <<rvars, question>>

DInit == Init /\ question = Nothing

Drawing == question = Nothing /\ Next /\ UNCHANGED question

ShowTab     == \E t \in Tabs : question' = [asked |-> "view", tab |-> t]
RewrapTwice == \E h \in Histories, v, w \in NewWidths :
                 question' = [asked |-> "reflow", lines |-> h, first |-> v, second |-> w]
Search      == \E b \in Buffers, s \in Searches :
                 question' = [asked |-> "search", lines |-> b, opts |-> s]
ImportFile  == \E f \in Files, u \in Users :
                 question' = [asked |-> "import", file |-> f, user |-> u]
StoreLine   == \E l \in StyledLines : question' = [asked |-> "line", line |-> l]
ShowTabs    == \E b \in Bars : question' = [asked |-> "bar", bar |-> b]

Ask ==
  /\ question = Nothing /\ last_frame = <<>> /\ host = <<>>
  /\ palette = Default
  /\ ShowTab \/ RewrapTwice \/ Search \/ ImportFile \/ StoreLine \/ ShowTabs
  /\ UNCHANGED rvars

DSpec == DInit /\ [][Drawing \/ Ask]_dvars

Asked(what) == question.asked = what

-----------------------------------------------------------------------------
(* However far a tab is scrolled back and whatever its lines rewrap to,    *)
(* its frame has exactly the rows and columns of its grid, and blank rows  *)
(* come first and only where all of history is too short for the screen    *)
(* (render_frame, history_window).                                         *)
ViewFillsScreen ==
  Asked("view") =>
    LET t    == question.tab
        rows == TabFrame(t).rows
        end  == Smaller(Monus(Len(t.history) + t.rows, t.offset), Len(t.history))
        all  == Rewrapped(SubSeq(t.history, 1, end), t.cols)
    IN  /\ Len(rows) = t.rows
        /\ \A y \in 1 .. t.rows : Len(rows[y]) = t.cols
        /\ \A want \in 1 .. t.rows :
             Len(HistoryWindow(t.history, t.cols, want, end)) = Smaller(want, Len(all))

(* Rewrapping is for viewing only: done at one width and then at another   *)
(* it gives the same rows as the other alone, none longer than the width   *)
(* (reflow: "only soft-wrap points move").                                 *)
ReflowRoundTrips ==
  Asked("reflow") =>
    LET once == Rewrapped(question.lines, question.second)
    IN  /\ Rewrapped(Rewrapped(question.lines, question.first), question.second) = once
        /\ \A i \in 1 .. Len(once) : Len(once[i].cells) <= question.second

(* Only blank cells are trimmed, "space, default style" (reflow.rs:50):    *)
(* every other cell of the lines is there after they are rewrapped.        *)
NotBlank(lines) ==
  SelectSeq(FlattenSeq([i \in DOMAIN lines |-> lines[i].cells]), LAMBDA c : c # Blank)
OnlyBlanksAreTrimmed ==
  Asked("reflow") =>
    NotBlank(Rewrapped(question.lines, question.first)) = NotBlank(question.lines)

(* The index hides no line and no match from a search, whatever the case   *)
(* of the query and the text, and what is reported is there.               *)
SearchFindsWhatIsThere ==
  Asked("search") => FindsWhatIsThere(question.lines, question.opts)

(* An imported profile has the values one pass over the file gives for its *)
(* name, first value first, with `Match user` asked of the default user    *)
(* (ssh_config_import.rs:12-19 and its honest limitation).                 *)
ProfilesAreResolved == Asked("import") => ImportIsOnePass(question.file, question.user)

(* A line keeps its text, colours and attributes in the cache and in a     *)
(* copy as ANSI.                                                           *)
LinesSurvive == Asked("line") => LineSurvives(question.line)

(* The tab bar shows the active tab's label as long as it fits at all.     *)
ActiveTabVisible ==
  Asked("bar") => ActiveTabShown(question.bar.lengths, question.bar.active, question.bar.width)
=============================================================================
