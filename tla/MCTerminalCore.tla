--------------------------- MODULE MCTerminalCore ---------------------------
(* Three windows: one with room for a scroll region, one wide enough for   *)
(* rows to be filled in part, one without a column.                        *)
EXTENDS TerminalCore

MCSizes == {<<3, 1>>, <<2, 2>>, <<1, 0>>}
=============================================================================
