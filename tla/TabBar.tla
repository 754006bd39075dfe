------------------------------- MODULE TabBar -------------------------------
(***************************************************************************)
(* render_tab_bar, session_manager/mod.rs: which part of the tab labels    *)
(* the bar shows.  A label is its length; the bar is the label shown in    *)
(* each column, 0 where there is none.                                     *)
(***************************************************************************)
EXTENDS Integers, Sequences, FiniteSets, FiniteSetsExt

(* Where the i-th label ends when they stand one behind the other.         *)
Ends(lengths) ==
  LET end[i \in 0 .. Len(lengths)] == IF i = 0 THEN 0 ELSE end[i - 1] + lengths[i]
  IN  end

Total(lengths, from, to) == Ends(lengths)[to] - Ends(lengths)[from - 1]

(* Mutant: the window starts with the label that does not fit any more.    *)
FirstShown_TooEarly(lengths, active, width) ==
  IF Total(lengths, 1, active) <= width THEN 1
  ELSE Max({j \in 1 .. active : Total(lengths, j, active) > width})
(* The first label shown: the earliest from which the labels up to the     *)
(* active one fit; 1 when they all do.                                     *)
FirstShown(lengths, active, width) ==
  IF Total(lengths, 1, active) <= width THEN 1
  ELSE Max({j \in 1 .. active : Total(lengths, j, active) > width}) + 1

(* The labels from there on, cut at the width.                             *)
TabBarRow(lengths, active, width) ==
  LET first == FirstShown(lengths, active, width)
      Covers(i, x) == Total(lengths, first, i - 1) < x /\ x <= Total(lengths, first, i)
  IN  [x \in 1 .. width |->
         IF \E i \in first .. Len(lengths) : Covers(i, x)
         THEN CHOOSE i \in first .. Len(lengths) : Covers(i, x)
         ELSE 0]

Columns(row, i) == {x \in DOMAIN row : row[x] = i}

(* A label that fits the bar is shown whole when its tab is active, and no *)
(* other label is shown in part except the last ("the active tab is        *)
(* guaranteed to be visible").                                             *)
ActiveTabShown(lengths, active, width) ==
  LET row == TabBarRow(lengths, active, width)
  IN  lengths[active] <= width =>
        /\ Cardinality(Columns(row, active)) = lengths[active]
        /\ \A i \in 1 .. Len(lengths) :
             Columns(row, i) = {} \/ Cardinality(Columns(row, i)) = lengths[i]
               \/ width \in Columns(row, i)
=============================================================================
