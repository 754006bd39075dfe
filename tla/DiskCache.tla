------------------------------ MODULE DiskCache ------------------------------
(***************************************************************************)
(* The scrollback store of one session, src/src/disk_cache/mod.rs, as its  *)
(* callers may use it: any order of append_line, flush, sync, read_line,   *)
(* drop and open, with the faults named in Faults:                         *)
(*    "kill"   the process dies between two system calls;                  *)
(*    "power"  the machine dies, files keep what was fsynced and a prefix  *)
(*             of the rest, each file on its own;                          *)
(*    "io"     a write to a file, or setting its length, fails.            *)
(***************************************************************************)
EXTENDS DiskCacheOps, FiniteSets

CONSTANTS Faults,       \* the faults that may happen
          MaxAppends,   \* bound: calls of append_line in a behaviour
          MaxOpens      \* bound: calls of open in a behaviour

ASSUME FaultsAssumption == Faults \subseteq {"kill", "power", "io"}
ASSUME BoundsAssumption == MaxAppends \in Nat /\ MaxOpens \in Nat

VARIABLES
  disk,     \* the DiskCache value and the files behind it
  up,       \* the handle is open
  log,      \* ghost: the line each id stands for, log[id + 1]
  aligned,  \* ghost: how many leading lines were appended at the true end of both files
  firm,     \* ghost: how many of those a flush has handed to the system
  fsynced,  \* ghost: how many of those a sync has made durable
  appends, opens

vars == <<disk, up, log, aligned, firm, fsynced, appends, opens>>

-----------------------------------------------------------------------------
AppendCall ==
  /\ up
  /\ appends < MaxAppends
  /\ appends' = appends + 1

Append_(v) ==
  /\ AppendCall
  /\ disk' = AppendLine(disk, v)
  /\ log' = Append(log, v)
  /\ aligned' = IF aligned = disk.count /\ EndsAgree(disk) THEN aligned + 1 ELSE aligned
  /\ UNCHANGED <<up, firm, fsynced, opens>>

(* A write of append_line fails: it returns with the earlier writes made.  *)
AppendFails(v) ==
  /\ "io" \in Faults
  /\ AppendCall
  /\ \E k \in 0..3 : AppendCanFail(disk, v, k) /\ disk' = AppendWrites(disk, v, k)
  /\ UNCHANGED <<up, log, aligned, firm, fsynced, opens>>

FlushOp ==
  /\ up
  /\ disk' = Flush(disk)
  /\ firm' = aligned
  /\ UNCHANGED <<up, log, aligned, fsynced, appends, opens>>

FlushFails ==
  /\ "io" \in Faults
  /\ up
  /\ disk' \in FlushFailures(disk)
  /\ UNCHANGED <<up, log, aligned, firm, fsynced, appends, opens>>

SyncOp ==
  /\ up
  /\ disk' = Sync(disk)
  /\ firm' = aligned
  /\ fsynced' = aligned
  /\ UNCHANGED <<up, log, aligned, appends, opens>>

ReadOp(id) ==
  /\ up
  /\ id < disk.count
  /\ disk' = AfterRead(disk)
  /\ firm' = aligned
  /\ UNCHANGED <<up, log, aligned, fsynced, appends, opens>>

(* Dropping the value flushes both BufWriters, .cache first, and ignores   *)
(* errors.                                                                 *)
Drop ==
  /\ up
  /\ \/ disk' = Killed(Flush(disk)) /\ firm' = aligned
     \/ /\ "io" \in Faults
        /\ \E f \in FlushFailures(disk) \cup {[disk EXCEPT !.index = FlushStream(@)]} :
             disk' = Killed(f)
        /\ UNCHANGED firm
  /\ up' = FALSE
  /\ UNCHANGED <<log, aligned, fsynced, appends, opens>>

(* The process is killed, possibly in the middle of append_line, or of     *)
(* whatever flushes, between its two files.                                *)
Kill ==
  /\ "kill" \in Faults
  /\ up
  /\ up' = FALSE
  /\ \/ disk' \in {Killed(disk), Killed(HalfFlushed(disk))}
     \/ /\ appends < MaxAppends
        /\ \E v \in Lines, k \in 1..4 : disk' = Killed(AppendWrites(disk, v, k))
  /\ UNCHANGED <<log, aligned, firm, fsynced, appends, opens>>

(* A power loss inside a call leaves files that one after the call's      *)
(* writes can leave as well.                                               *)
PowerLoss ==
  /\ "power" \in Faults
  /\ up' = FALSE
  /\ disk' \in PowerLosses(disk)
  /\ firm' = fsynced
  /\ UNCHANGED <<log, aligned, fsynced, appends, opens>>

Lesser(m, n) == IF m <= n THEN m ELSE n

(* How many of the first n lines of l a handle still returns, up to the    *)
(* first it does not.                                                      *)
Whole(d, l, n) ==
  Cardinality({m \in 1..n : \A id \in 0..m - 1 : Returns(d, id, l[id + 1])})

(* open() recovers; ids from line_count on are then reused.                *)
Reopen ==
  /\ ~up
  /\ opens < MaxOpens
  /\ opens' = opens + 1
  /\ \/ /\ ~OpenFails(disk)
        /\ up' = TRUE
        /\ disk' = Open(disk)
     \/ /\ OpenFails(disk) \/ ("io" \in Faults /\ OpenCuts(disk))
        /\ up' = FALSE
        /\ disk' = AfterFailedOpen(disk)
  /\ log' = IF up' THEN SubSeq(log, 1, Lesser(Len(log), disk'.count)) ELSE log
  /\ aligned' = IF up' THEN Whole(disk', log, Lesser(aligned, disk'.count)) ELSE aligned
  /\ UNCHANGED <<firm, fsynced, appends>>

Init ==
  /\ disk = NewCache
  /\ up = FALSE
  /\ log = << >>
  /\ aligned = 0 /\ firm = 0 /\ fsynced = 0
  /\ appends = 0 /\ opens = 0

Next ==
  \/ \E v \in Lines : Append_(v) \/ AppendFails(v)
  \/ FlushOp \/ FlushFails \/ SyncOp
  \/ \E id \in 0..disk.count - 1 : ReadOp(id)
  \/ Drop \/ Kill \/ PowerLoss \/ Reopen

Spec == Init /\ [][Next]_vars

-----------------------------------------------------------------------------
(* Types, and what struct DiskCache relies on: nothing is fsynced that was *)
(* not handed to the system, nothing handed over that was not written, and *)
(* nothing is mapped that is not in the file.                              *)
TypeOK ==
  /\ DiskType(disk)
  /\ disk.mmap <= disk.cache.os
  /\ up \in BOOLEAN
  /\ log \in Seq(Lines)
  /\ appends \in 0..MaxAppends /\ opens \in 0..MaxOpens

(* Every line that append_line put at the true end of the files, without   *)
(* faults every line there is, reads back as itself through buffered       *)
(* writes, a mapping kept from an earlier read, failed appends and flushes,*)
(* a drop and a new open (disk_cache/mod.rs read_line, ensure_mmap).       *)
LinesReadBack ==
  up => /\ aligned <= disk.count
        /\ \A id \in 0..aligned - 1 : Returns(disk, id, log[id + 1])

(* Whatever faults happen, the leading lines that were flushed at the true *)
(* end of the files (fsynced, if the power fails) are counted by open and  *)
(* read back for ever after, however recover cuts or extends the files and *)
(* whatever later appends do.                                              *)
FlushedLinesSurvive ==
  up => /\ firm <= disk.count
        /\ \A id \in 0..firm - 1 : Returns(disk, id, log[id + 1])

(* mod.rs:193-195, recover truncates "a dangling partial record left by a  *)
(* crash mid-write so the cache file and index file agree with each other  *)
(* again": an append begins at the end of both files.                      *)
FilesAgreeAfterOpen == [][Reopen /\ up' => EndsAgree(disk')]_vars

(* mod.rs:13-16, a crash "can at worst leave one dangling partial record   *)
(* at EOF (detected & truncated on next open)": the lines open counts can  *)
(* be read.                                                                *)
CountedLinesReadable ==
  [][Reopen /\ up' => \A id \in 0..disk'.count - 1 : Returns(disk', id, log'[id + 1])]_vars
=============================================================================
