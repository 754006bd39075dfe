------------------------------ MODULE CellCode ------------------------------
(***************************************************************************)
(* The two forms a line takes outside the grid, virtual_buffer/cell.rs:    *)
(* the record stored in the disk cache and the text with escape sequences  *)
(* that is copied; and what the parser makes of the parameters of SGR,     *)
(* ansi_parser/mod.rs apply_sgr.                                           *)
(*                                                                         *)
(* A cell is [ch, fg, bg, attrs] with attrs a subset of Attrs.  A colour   *)
(* is <<>>, <<index>> or <<r, g, b>>.  A record is a sequence of numbers,  *)
(* one per byte except that a character is one unit of its four bytes.     *)
(***************************************************************************)
EXTENDS Integers, Sequences, FiniteSets, SequencesExt

Attrs == {"bold", "italic", "underline", "reverse", "strikethrough"}
Color == {c \in Seq(0 .. 255) : Len(c) \in {0, 1, 3}}
StyledCell(chars) == [ch : chars, fg : Color, bg : Color, attrs : SUBSET Attrs]

Plain == [fg |-> <<>>, bg |-> <<>>, attrs |-> {}]

Failed == [error |-> TRUE]  \* the Err of decode

-----------------------------------------------------------------------------
(* Attrs::to_bits and from_bits                                            *)

Bit == [bold |-> 1, italic |-> 2, underline |-> 4, reverse |-> 8, strikethrough |-> 16]

ToBits(attrs) ==
  LET Add(a, n) == IF a \in attrs THEN n + Bit[a] ELSE n
  IN  Add("bold", Add("italic", Add("underline", Add("reverse", Add("strikethrough", 0)))))

FromBits(n) == {a \in Attrs : (n \div Bit[a]) % 2 = 1}

-----------------------------------------------------------------------------
(* Line::encode and decode                                                 *)

WriteColor(c) ==
  CASE Len(c) = 0 -> <<0, 0, 0, 0>>
    [] Len(c) = 1 -> <<1, c[1], 0, 0>>
    [] OTHER      -> <<2>> \o c

ReadColor(b) ==
  CASE b[1] = 0 -> <<>>
    [] b[1] = 1 -> <<b[2]>>
    [] OTHER    -> SubSeq(b, 2, 4)

CellSize == 10

WriteCell(cell) == <<cell.ch>> \o WriteColor(cell.fg) \o WriteColor(cell.bg) \o <<ToBits(cell.attrs)>>

(* Mutant: the background is read where the foreground is.                 *)
ReadCell_SameColor(b) ==
  [ch |-> b[1], fg |-> ReadColor(SubSeq(b, 2, 5)), bg |-> ReadColor(SubSeq(b, 2, 5)),
   attrs |-> FromBits(b[10])]
ReadCell(b) ==
  [ch |-> b[1], fg |-> ReadColor(SubSeq(b, 2, 5)), bg |-> ReadColor(SubSeq(b, 6, 9)),
   attrs |-> FromBits(b[10])]

Encode(line) ==
  <<IF line.wrapped THEN 1 ELSE 0>>
    \o FlattenSeq([i \in 1 .. Len(line.cells) |-> WriteCell(line.cells[i])])

(* A record that ends within a cell is an error.                           *)
Decode(bytes) ==
  IF bytes = <<>> THEN [cells |-> <<>>, wrapped |-> FALSE]
  ELSE IF (Len(bytes) - 1) % CellSize # 0 THEN Failed
  ELSE [cells   |-> [i \in 1 .. (Len(bytes) - 1) \div CellSize |->
                       ReadCell(SubSeq(bytes, (i - 1) * CellSize + 2, i * CellSize + 1))],
        wrapped |-> bytes[1] # 0]

-----------------------------------------------------------------------------
(* apply_sgr: the parameters from left to right.  38 and 48 take the       *)
(* parameters behind them; when those are missing they are skipped.        *)

On == [n \in {1, 3, 4, 7, 9} |->
         CASE n = 1 -> "bold" [] n = 3 -> "italic" [] n = 4 -> "underline"
           [] n = 7 -> "reverse" [] OTHER -> "strikethrough"]

(* u8 of a parameter, as Indexed(idx as u8).                               *)
Byte(n) == n % 256

Ground(p) == IF p = 38 THEN "fg" ELSE "bg"

Colored(pen, field, c)  == [pen EXCEPT ![field] = c]
Attributed(pen, attrs)  == [pen EXCEPT !.attrs = attrs]
ReadUpTo(next, pen)     == [next |-> next, pen |-> pen]

(* The colour behind 38 or 48, of one number or of three.                  *)
Chosen(i, p, pen) ==
  LET Sets(k, c) ==
        ReadUpTo(i + k, IF i + k - 1 <= Len(p) THEN Colored(pen, Ground(p[i]), c) ELSE pen)
  IN  CASE i < Len(p) /\ p[i + 1] = 5 -> Sets(3, <<Byte(p[i + 2])>>)
        [] i < Len(p) /\ p[i + 1] = 2 ->
             Sets(5, <<Byte(p[i + 2]), Byte(p[i + 3]), Byte(p[i + 4])>>)
        [] OTHER -> ReadUpTo(i + 1, pen)

SgrStep(acc, i, p) ==
  LET n   == p[i]
      pen == acc.pen
      One(after) == ReadUpTo(i + 1, after)
  IN  IF i < acc.next THEN acc
      ELSE CASE n = 0 -> One(Plain)
             [] n \in DOMAIN On -> One(Attributed(pen, pen.attrs \union {On[n]}))
             [] n - 20 \in DOMAIN On \ {1} -> One(Attributed(pen, pen.attrs \ {On[n - 20]}))
             [] n = 22 -> One(Attributed(pen, pen.attrs \ {"bold"}))
             [] n \in 30 .. 37 -> One(Colored(pen, "fg", <<n - 30>>))
             [] n \in 90 .. 97 -> One(Colored(pen, "fg", <<n - 82>>))
             [] n \in 40 .. 47 -> One(Colored(pen, "bg", <<n - 40>>))
             [] n \in 100 .. 107 -> One(Colored(pen, "bg", <<n - 92>>))
             [] n \in {39, 49} -> One(Colored(pen, Ground(n - 1), <<>>))
             [] n \in {38, 48} -> Chosen(i, p, pen)
             [] OTHER -> One(pen)

(* The pen after each parameter.                                           *)
SgrStates(pen, p) ==
  LET after[i \in 0 .. Len(p)] ==
        IF i = 0 THEN [next |-> 1, pen |-> pen] ELSE SgrStep(after[i - 1], i, p)
  IN  after

ApplySgr(pen, p) == IF p = <<>> THEN Plain ELSE SgrStates(pen, p)[Len(p)].pen

-----------------------------------------------------------------------------
(* to_ansi_string, as a sequence of escape sequences and characters.       *)

Sgr(p) == <<"sgr", p>>
Ch(c)  == <<"ch", c>>

ColorParams(first, c) ==
  CASE Len(c) = 0 -> <<>>
    [] Len(c) = 1 -> <<first, 5>> \o c
    [] OTHER      -> <<first, 2>> \o c

PenOf(cell) == [fg |-> cell.fg, bg |-> cell.bg, attrs |-> cell.attrs]

AttrParam(n, pen) == IF On[n] \in pen.attrs THEN <<n>> ELSE <<>>

(* Mutant: the pen is changed, not set anew.                               *)
SgrOf_NoReset(pen) ==
  AttrParam(1, pen) \o AttrParam(3, pen) \o AttrParam(4, pen) \o AttrParam(7, pen) \o AttrParam(9, pen)
    \o ColorParams(38, pen.fg) \o ColorParams(48, pen.bg)
SgrOf(pen) ==
  <<0>>
    \o AttrParam(1, pen) \o AttrParam(3, pen) \o AttrParam(4, pen) \o AttrParam(7, pen) \o AttrParam(9, pen)
    \o ColorParams(38, pen.fg) \o ColorParams(48, pen.bg)

ToAnsi(cells) ==
  LET Before(i) == IF i = 1 THEN Plain ELSE PenOf(cells[i - 1])
      Emit(i)   == (IF PenOf(cells[i]) = Before(i) THEN <<>>
                    ELSE <<Sgr(SgrOf(PenOf(cells[i])))>>)
                   \o <<Ch(cells[i].ch)>>
  IN  FlattenSeq([i \in 1 .. Len(cells) |-> Emit(i)]) \o <<Sgr(<<0>>)>>

-----------------------------------------------------------------------------
(* What a terminal whose pen is `pen` makes of such a text.                *)

TypeOne(acc, t) ==
  IF t[1] = "sgr" THEN [acc EXCEPT !.pen = ApplySgr(@, t[2])]
  ELSE [acc EXCEPT !.cells =
          Append(@, [ch |-> t[2], fg |-> acc.pen.fg, bg |-> acc.pen.bg,
                     attrs |-> acc.pen.attrs])]

Typed(pen, text) ==
  LET after[i \in 0 .. Len(text)] ==
        IF i = 0 THEN [pen |-> pen, cells |-> <<>>] ELSE TypeOne(after[i - 1], text[i])
  IN  after[Len(text)]

(* A stored line comes back as it was, a cut one never as another line     *)
(* with the same number of cells; a copied line typed into a terminal is   *)
(* the line, and leaves the pen plain for what follows.                    *)
LineSurvives(line) ==
  /\ Decode(Encode(line)) = line
  /\ \A n \in 0 .. Len(Encode(line)) - 1 :
       LET cut == Decode(SubSeq(Encode(line), 1, n))
       IN  cut = Failed \/ (Len(cut.cells) < Len(line.cells) /\ IsPrefix(cut.cells, line.cells))
             \/ n = 0
  /\ Typed(Plain, ToAnsi(line.cells)) = [pen |-> Plain, cells |-> line.cells]
=============================================================================
