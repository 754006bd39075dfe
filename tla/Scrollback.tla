----------------------------- MODULE Scrollback -----------------------------
(***************************************************************************)
(* What a scrollback buffer promises, src/src/virtual_buffer/mod.rs:1-18:  *)
(* a history that only grows while the buffer is open, of which a later    *)
(* open of the same session finds a leading part.                          *)
(***************************************************************************)
EXTENDS Sequences, Naturals

CONSTANT Lines

VARIABLES hist,   \* the lines, by id
          up      \* the buffer is open

Push(v) ==
  /\ up
  /\ hist' = Append(hist, v)
  /\ UNCHANGED up

(* Closing, or dying, possibly while a line is being pushed.               *)
Stop ==
  /\ up
  /\ up' = FALSE
  /\ hist' = hist \/ \E v \in Lines : hist' = Append(hist, v)

Start ==
  /\ ~up
  /\ up' = TRUE
  /\ \E n \in 0..Len(hist) : hist' = SubSeq(hist, 1, n)

Init == hist = << >> /\ up = FALSE

Next == (\E v \in Lines : Push(v)) \/ Stop \/ Start

Spec == Init /\ [][Next]_<<hist, up>>
=============================================================================
