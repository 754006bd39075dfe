----------------------------- MODULE MCDisplay ------------------------------
(* Small sets of inputs for Display.                                       *)
EXTENDS Display

MCBlank == <<" ", "plain">>
a == <<"a", "plain">>
b == <<"a", "bold">>
Underlined == <<" ", "underlined">>
MCBlankLooking == {MCBlank, Underlined}

Hard(cells)  == [cells |-> cells, wrapped |-> FALSE]
Soft(cells)  == [cells |-> cells, wrapped |-> TRUE]

Rows == {Hard(<<>>), Hard(<<a>>), Hard(<<a, b, MCBlank>>), Soft(<<a, b>>), Soft(<<MCBlank, Underlined>>)}

MCHistories == BoundedSeq(Rows, 4)
MCNewWidths == 1 .. 4

Grid(rows, cols, cell) == [y \in 1 .. rows |-> [x \in 1 .. cols |-> cell]]
TabOf(h, r, c, off) ==
  [history |-> h, grid |-> Grid(r, c, b), rows |-> r, cols |-> c, offset |-> off,
   cursor |-> <<0, c>>]

(* Ten rows of a long line behind a short one: at twelve columns the rows  *)
(* a first read gets do not fill two rows.                                 *)
LongLine == <<Hard(<<a>>)>> \o [i \in 1 .. 10 |-> Soft(<<a>>)]

MCTabs == {TabOf(h, r, c, off) : h \in BoundedSeq(Rows, 3), r \in 0 .. 2, c \in 0 .. 2, off \in 0 .. 3}
          \union {TabOf(LongLine, 2, 12, off) : off \in 0 .. 11}

Frames(cols) ==
  LET bar == [x \in 1 .. cols |-> b]
      One == {TabOf(h, 1, cols, off) : h \in {<<Hard(<<a, a>>)>>, <<Soft(<<a>>), Hard(<<b>>)>>},
                                       off \in 0 .. 2}
      Half == {[TabOf(<<>>, 1, 1, 0) EXCEPT !.grid = <<<<c>>>>] : c \in {a, b}}
  IN  {FullFrame(top, TabFrame(t)) : top \in {bar, MessageRow(<<a>>, cols, MCBlank)}, t \in One}
      \union IF cols # 3 THEN {}
             ELSE {FullFrame(bar, SplitFrame(l, r, 1, f, a)) : l, r \in Half, f \in {"left", "right"}}
MCPages == Frames(2) \union Frames(3)
           \union {FullFrame(bar, [rows |-> <<>>, cursor |-> Off]) : bar \in {<<a, b>>}}

(* No tab among these has missed a resize.                                 *)
ASSUME MCPagesAreRectangular == PagesAreRectangular

MCDark  == [s \in {"plain", "bold"} |-> <<"dark", s>>]
MCLight == [s \in {"plain", "bold"} |-> <<"light", s>>]
MCThemes == {MCDark, MCLight}

MCUpper  == [A |-> "a"]
MCBlanks == {" "}
Letters  == {"a", "A", " "}
MCBuffers  == {<<l>> \o rest : l \in BoundedSeq(Letters, 4),
                 rest \in {<<>>, <<<<"a", " ", "a", "a">>>>, <<<<>>, <<"A", "a", "a">>>>}}
MCSearches == [query : BoundedSeq({"a", " "}, 4) \union {<<"A", "a", "a">>},
               case_sensitive : BOOLEAN, whole_word : BOOLEAN]

Yes(g) == [negated |-> FALSE, glob |-> g]
No(g)  == [negated |-> TRUE, glob |-> g]
L(key, words) == [key |-> key, words |-> words]
Directives == {L("hostname", <<"h">>), L("hostname", <<>>), L("user", <<"u">>),
               L("port", <<"22022">>), L("port", <<"no number">>), L("identityfile", <<"k">>)}
Headers == {L("host", <<Yes(<<"x">>)>>), L("host", <<Yes(<<"x", "y">>), Yes(<<"x">>)>>),
            L("host", <<Yes(<<"*">>), No(<<"*", "y">>)>>), L("host", <<Yes(<<"?">>)>>),
            L("match", <<"host", <<Yes(<<"x", "*">>)>>>>),
            L("match", <<"user", <<No(<<"r">>), Yes(<<"*">>)>>>>),
            L("match", <<"all">>), L("match", <<"exec", <<Yes(<<"x">>)>>>>)}
MCFiles == {<<h1, d1, h2, d2>> : h1, h2 \in Headers, d1, d2 \in Directives}
           \union BoundedSeq(Headers \union {L("hostname", <<"h">>), L("user", <<"u">>)}, 3)
MCUsers == {<<"r">>, <<"s">>}
MCNameChars == {"*", "?", "r", "s", "x", "y"}

Colours == {<<>>, <<9>>, <<1, 38, 5>>}
StyledCells == [ch : {"c"}, fg : Colours, bg : Colours,
                attrs : {{}, {"bold", "reverse"}, {"italic", "underline", "strikethrough"}}]
MCStyledLines == [cells : BoundedSeq(StyledCells, 2), wrapped : BOOLEAN]

MCBars == UNION {[lengths : {s}, active : 1 .. Len(s), width : 0 .. 9] :
                   s \in BoundedSeq(1 .. 4, 4) \ {<<>>}}
=============================================================================
