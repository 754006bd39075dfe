----------------------------- MODULE MCDiskCache -----------------------------
(* Two lines of different sizes, buffers that hold two or three records.   *)
EXTENDS DiskCache, TLC

CONSTANTS short, long

MCLines == {short, long}
MCSize == short :> 1 @@ long :> 3
=============================================================================
