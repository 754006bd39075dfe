--------------------------- MODULE MCVirtualBuffer ---------------------------
(* Two lines of different sizes; RAM holds two lines, the cache is flushed *)
(* every third eviction and its .cache buffer spills in between.           *)
EXTENDS VirtualBuffer, TLC

CONSTANTS short, long

MCLines == {short, long}
MCSize == short :> 1 @@ long :> 3
=============================================================================
