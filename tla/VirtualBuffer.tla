---------------------------- MODULE VirtualBuffer ----------------------------
(***************************************************************************)
(* The scrollback buffer of one session, src/src/virtual_buffer/mod.rs:    *)
(* the newest lines in RAM, the older ones in a DiskCache, and the set of  *)
(* lines the search index knows.  push_line evicts the oldest RAM line to  *)
(* the cache and flushes the cache every SyncEvery evictions.              *)
(*                                                                         *)
(* Lifecycle, as main.rs drives it: open; any number of push_line,         *)
(* get_line/get_range and checkpoint; then checkpoint and drop             *)
(* (main.rs:323-333), or a kill.  A later open of the same session id      *)
(* takes over the files.                                                   *)
(***************************************************************************)
EXTENDS DiskCacheOps

CONSTANTS RamCapacity,   \* ram_capacity
          SyncEvery,     \* DEFAULT_SYNC_EVERY_N_LINES
          RebuildCap,    \* REBUILD_INDEX_LINE_CAP
          Faults,        \* "kill": the process dies; "io": a file write fails
          MaxLines,      \* bound: line ids of a session
          MaxOpens       \* bound: calls of open in a behaviour

ASSUME RamAssumption == RamCapacity \in Nat
ASSUME SyncAssumption == SyncEvery \in Nat \ {0}
ASSUME RebuildAssumption == RebuildCap \in Nat
ASSUME FaultsAssumption == Faults \subseteq {"kill", "io"}
ASSUME BoundsAssumption == MaxLines \in Nat /\ MaxOpens \in Nat

(* Line::encode writes at least the wrapped flag.                          *)
ASSUME EncodedAssumption == \A v \in Lines : Size[v] > 0

(* 500 index records of 12 bytes fit in the 8 KB of a BufWriter.           *)
ASSUME BufferAssumption == IndexWords * SyncEvery <= IndexCap

VARIABLES
  disk,      \* the DiskCache
  ram,       \* the newest lines, oldest first
  total,     \* total_lines
  dirty,     \* dirty_since_sync
  indexed,   \* the line ids trigram_index knows
  up,        \* the buffer is open
  pushed,    \* ghost: the line each id stands for, pushed[id + 1]
  firm,      \* ghost: how many leading ids a flush or a read has handed to the system
  aligned,   \* ghost: how many leading lines were spilled at the true end of both files
  skipped,   \* ghost: how many leading lines the last open left out of the index
  opens

vars == <<disk, ram, total, dirty, indexed, up, pushed, firm, aligned, skipped, opens>>

-----------------------------------------------------------------------------
Lesser(m, n) == IF m <= n THEN m ELSE n

DiskLineCount == total - Len(ram)

(* Line::decode gives back a line that was encoded.                        *)
Decodes(r, v) == r = [ok |-> TRUE, bytes |-> Content(v)]

(* None, or a line nobody pushed, which foreign bytes may decode to.       *)
NoLine == "none"

(* Mutant: the disk is taken to hold what its line_count says.             *)
GetLine_CountsDisk(id) ==
  IF id >= total THEN NoLine
  ELSE IF id >= disk.count /\ id - disk.count < Len(ram) THEN ram[id - disk.count + 1]
  ELSE LET r == ReadLine(disk, id)
       IN IF \E v \in Lines : Decodes(r, v)
          THEN CHOOSE v \in Lines : Decodes(r, v)
          ELSE NoLine

(* get_line: None for a read error or bytes that do not decode.            *)
GetLine(id) ==
  IF id >= total THEN NoLine
  ELSE IF id >= DiskLineCount THEN ram[id - DiskLineCount + 1]
  ELSE LET r == ReadLine(disk, id)
       IN IF \E v \in Lines : Decodes(r, v)
          THEN CHOOSE v \in Lines : Decodes(r, v)
          ELSE NoLine

(* The disk part of get_range: read_range stops at line_count and gives up *)
(* at the first error; a line that does not decode comes back blank.       *)
DiskRange(from, to) ==
  LET end == Lesser(to, disk.count)
  IN IF \E id \in from..end - 1 : ~ReadLine(disk, id).ok THEN << >>
     ELSE [i \in 1..end - from |-> GetLine(from + i - 1)]

(* Mutant: a range comes from the disk or from RAM, never from both.       *)
GetRange_EitherOr(start, endExclusive) ==
  LET from == Lesser(start, total)
      to == Lesser(endExclusive, total)
  IN IF from >= to THEN << >>
     ELSE IF from < DiskLineCount THEN DiskRange(from, Lesser(to, DiskLineCount))
     ELSE SubSeq(ram, from - DiskLineCount + 1, to - DiskLineCount)

GetRange(start, endExclusive) ==
  LET from == Lesser(start, total)
      to == Lesser(endExclusive, total)
  IN IF from >= to THEN << >>
     ELSE (IF from < DiskLineCount THEN DiskRange(from, Lesser(to, DiskLineCount)) ELSE << >>)
          \o SubSeq(ram, (IF from < DiskLineCount THEN 0 ELSE from - DiskLineCount) + 1,
                    to - DiskLineCount)

(* search_stream for a text that line v holds and no other line does: the  *)
(* ids the search index proposes, each checked with get_line...            *)
IndexedSearch(v) == {id \in indexed : GetLine(id) = v}

(* ... or, for a query the index cannot help with, the whole history.      *)
FullScan(v) ==
  LET lines == GetRange(0, total) IN {i - 1 : i \in {j \in DOMAIN lines : lines[j] = v}}

-----------------------------------------------------------------------------
(* push_line when nothing has to leave RAM.                                *)
Keep(v) ==
  /\ Len(ram) < RamCapacity
  /\ ram' = Append(ram, v)
  /\ UNCHANGED <<disk, dirty, firm, aligned>>

(* What the disk is after the evicted line is appended: the append may     *)
(* fail after some of its writes, which push_line only logs.               *)
Spilled(v) ==
  {AppendLine(disk, v)} \cup
  {AppendWrites(disk, v, k) :
     k \in {j \in 0..3 : "io" \in Faults /\ AppendCanFail(disk, v, j)}}

(* A line appended where the files end goes on with the aligned ones.      *)
Aligning ==
  aligned' = IF aligned = disk.count /\ EndsAgree(disk) THEN disk'.count ELSE aligned

(* Mutants: the newest line is evicted; the count of evictions is not      *)
(* reset; the flush comes one eviction late.                               *)
Evict_Newest(v) ==
  /\ Len(ram) >= RamCapacity
  /\ ram' = ram
  /\ disk' = IF dirty + 1 < SyncEvery THEN AppendLine(disk, v) ELSE Flush(AppendLine(disk, v))
  /\ dirty' = (dirty + 1) % SyncEvery
  /\ firm' = IF dirty' = 0 THEN disk'.count ELSE firm
  /\ Aligning

Flushing(v, n) ==
  /\ Len(ram) >= RamCapacity
  /\ ram' = Tail(Append(ram, v))
  /\ LET d == AppendLine(disk, Head(Append(ram, v)))
     IN IF dirty + 1 < n
        THEN disk' = d /\ firm' = firm
        ELSE disk' = Flush(d) /\ firm' = d.count
  /\ Aligning

Evict_NoReset(v) == Flushing(v, SyncEvery) /\ dirty' = dirty + 1

Evict_Late(v) ==
  /\ Flushing(v, SyncEvery + 1)
  /\ dirty' = IF dirty < SyncEvery THEN dirty + 1 ELSE 0

(* push_line when RAM is full: the oldest line is evicted, and after       *)
(* SyncEvery evictions the cache is flushed.  A failed flush is only       *)
(* logged, and the count of evictions starts again all the same.           *)
Evict(v) ==
  /\ Len(ram) >= RamCapacity
  /\ ram' = Tail(Append(ram, v))
  /\ \E d \in Spilled(Head(Append(ram, v))) :
       IF dirty + 1 < SyncEvery
       THEN /\ disk' = d
            /\ dirty' = dirty + 1
            /\ firm' = firm
       ELSE /\ dirty' = 0
            /\ \/ disk' = Flush(d) /\ firm' = d.count
               \/ "io" \in Faults /\ disk' \in FlushFailures(d) /\ firm' = firm
  /\ Aligning

PushLine(v) ==
  /\ up
  /\ total < MaxLines
  /\ Keep(v) \/ Evict(v)
  /\ total' = total + 1
  /\ indexed' = indexed \cup {total}
  /\ pushed' = Append(pushed, v)
  /\ UNCHANGED <<up, skipped, opens>>

(* get_line of a line on disk, and get_range when its range starts there   *)
(* (viewport, search): the cache flushes itself and maps its file.         *)
ReadDisk ==
  /\ up
  /\ DiskLineCount > 0
  /\ disk.count > 0
  /\ \/ /\ disk' = AfterRead(disk)
        /\ firm' = disk.count
     \/ /\ "io" \in Faults
        /\ disk' \in FlushFailures(disk)
        /\ firm' = firm
  /\ UNCHANGED <<ram, total, dirty, indexed, up, pushed, aligned, skipped, opens>>

(* checkpoint: sync, which leaves dirty_since_sync alone.                  *)
Checkpoint ==
  /\ up
  /\ \/ disk' = Sync(disk) /\ firm' = disk.count
     \/ "io" \in Faults /\ disk' \in FlushFailures(disk) /\ firm' = firm
  /\ UNCHANGED <<ram, total, dirty, indexed, up, pushed, aligned, skipped, opens>>

(* The end of a session, main.rs:323-333: checkpoint, then the buffer is   *)
(* dropped, which flushes each file once more and ignores errors.  What is *)
(* in RAM goes nowhere.                                                    *)
Shutdown ==
  /\ up
  /\ \/ disk' = Killed(Sync(disk)) /\ firm' = disk.count
     \/ /\ "io" \in Faults
        /\ \E d \in FlushFailures(disk) \cup {[disk EXCEPT !.index = FlushStream(@)]} :
             disk' = Killed(d)
        /\ firm' = firm
  /\ up' = FALSE
  /\ UNCHANGED <<ram, total, dirty, indexed, pushed, aligned, skipped, opens>>

(* The process is killed between two calls, or in one that flushes (a      *)
(* read, checkpoint, the end of a session), between the two files.         *)
Kill ==
  /\ "kill" \in Faults
  /\ up
  /\ disk' \in {Killed(disk), Killed(HalfFlushed(disk))}
  /\ up' = FALSE
  /\ UNCHANGED <<ram, total, dirty, indexed, pushed, firm, aligned, skipped, opens>>

(* The process is killed inside push_line: after k of the writes, or in    *)
(* the flush that is due, between the two files.                           *)
KilledInPush(v) ==
  /\ "kill" \in Faults
  /\ up
  /\ total < MaxLines
  /\ Len(ram) >= RamCapacity
  /\ pushed' = Append(pushed, v)
  /\ up' = FALSE
  /\ UNCHANGED <<ram, total, dirty, indexed, firm, aligned, skipped, opens>>

KillInPush(v, k) ==
  /\ KilledInPush(v)
  /\ disk' = Killed(AppendWrites(disk, Head(Append(ram, v)), k))

KillInFlush(v) ==
  /\ KilledInPush(v)
  /\ dirty + 1 >= SyncEvery
  /\ disk' = Killed(HalfFlushed(AppendLine(disk, Head(Append(ram, v)))))

(* Mutant: open leaves the search index empty.                             *)
Rebuilt_Nothing(d) == {}

(* The ids open puts in the search index: all of them, unless there are    *)
(* too many or one cannot be read; lines that do not decode are skipped.   *)
Rebuilt(d) ==
  IF d.count > RebuildCap \/ \E id \in 0..d.count - 1 : ~ReadLine(d, id).ok THEN {}
  ELSE {id \in 0..d.count - 1 : \E v \in Lines : Returns(d, id, v)}

(* open: recover, then read everything back once for the search index.  An *)
(* open that fails half way is left to DiskCache.                          *)
Reopen ==
  /\ ~up
  /\ opens < MaxOpens
  /\ ~OpenFails(disk)
  /\ opens' = opens + 1
  /\ LET d == Open(disk)
     IN /\ disk' = IF 0 < d.count /\ d.count <= RebuildCap THEN AfterRead(d) ELSE d
        /\ total' = d.count
        /\ indexed' = Rebuilt(d)
        /\ pushed' = SubSeq(pushed, 1, Lesser(Len(pushed), d.count))
        /\ aligned' = Lesser(aligned, d.count)
        /\ skipped' = IF d.count > RebuildCap THEN d.count ELSE 0
  /\ ram' = << >>
  /\ dirty' = 0
  /\ up' = TRUE
  /\ firm' = disk'.count

Init ==
  /\ disk = NewCache
  /\ ram = << >>
  /\ total = 0 /\ dirty = 0
  /\ indexed = {}
  /\ up = FALSE
  /\ pushed = << >>
  /\ firm = 0 /\ aligned = 0 /\ skipped = 0 /\ opens = 0

Next ==
  \/ \E v \in Lines : PushLine(v)
  \/ ReadDisk \/ Checkpoint \/ Shutdown \/ Kill \/ Reopen
  \/ \E v \in Lines, k \in 1..4 : KillInPush(v, k)
  \/ \E v \in Lines : KillInFlush(v)

Spec == Init /\ [][Next]_vars

-----------------------------------------------------------------------------
(* Types, the capacity of RAM and the range of the flush counter, the two  *)
(* limits push_line keeps by evicting and by flushing.                     *)
TypeOK ==
  /\ DiskType(disk)
  /\ ram \in Seq(Lines) /\ Len(ram) <= RamCapacity
  /\ total \in 0..MaxLines
  /\ dirty \in 0..SyncEvery - 1
  /\ indexed \in SUBSET Nat
  /\ up \in BOOLEAN
  /\ pushed \in Seq(Lines)
  /\ firm \in Nat /\ aligned \in Nat /\ skipped \in Nat /\ opens \in 0..MaxOpens

(* The invariant of mod.rs:15-18: lines [0, disk.line_count()) are on disk *)
(* and the rest, up to total_lines, in RAM.                                *)
LinesSplit == up => disk.count + Len(ram) = total

(* What makes recover harmless after a kill: the index file never runs     *)
(* ahead of the cache file, because flush writes .cache first and because  *)
(* push_line flushes before the .idx buffer can spill on its own.          *)
IndexCovered ==
  \A k \in 0..(disk.index.os \div IndexWords) - 1 :
    EndOf(Entry(disk.index.data, k)) <= disk.cache.os

(* What a kill can cost (DEFAULT_SYNC_EVERY_N_LINES), however the session  *)
(* was reopened before: a reopen counts every line a flush or a read has   *)
(* handed to the system, fewer than SyncEvery of the others are ever on    *)
(* disk, and each counted line that was spilled where the files really     *)
(* ended reads back.  Lines spilled behind the left-over bytes of an       *)
(* earlier kill are counted only: see ShowsWhatWasPushed.                  *)
LossBounded ==
  [][/\ Reopen =>
          /\ disk'.count >= firm
          /\ \A id \in 0..Lesser(firm, aligned) - 1 : Returns(disk', id, pushed[id + 1])
     /\ up' => disk'.count - firm' < SyncEvery]_vars

(* Whatever becomes of the disk, the newest lines are served from RAM, at  *)
(* their own ids: get_line and disk_line_count reckon with total_lines and *)
(* the RAM, never with the line count of the disk (mod.rs:139-161).        *)
NewestLinesReadable ==
  up => \A i \in 0..Len(ram) - 1 : GetLine(total - 1 - i) = pushed[Len(pushed) - i]

(* get_range is get_line over the range, also when the range spans disk    *)
(* and RAM or reaches beyond the end (mod.rs:163-198).                     *)
RangesMatchLines ==
  up => \A s \in 0..total, e \in 0..total + 1 :
          GetRange(s, e) = SubSeq(pushed, s + 1, Lesser(e, total))

(* A plain-text search finds what a scan of the whole history would find,  *)
(* through evictions and reopenings, but for the lines an open with more   *)
(* than RebuildCap of them left out of the index (mod.rs:71-91).           *)
SearchComplete ==
  up => \A v \in Lines : IndexedSearch(v) = {id \in FullScan(v) : id >= skipped}

(* mod.rs:46-53: search over the lines left out "falls back to the         *)
(* sequential scan in that case -- still correct, just not accelerated".   *)
SearchFallsBack == up => \A v \in Lines : IndexedSearch(v) = FullScan(v)

(* The history get_line shows is the one that was pushed.                  *)
Shown == IF up THEN [i \in 1..total |-> GetLine(i - 1)] ELSE pushed

History == INSTANCE Scrollback WITH hist <- Shown

(* Every line ever pushed reads back, at its own id, until the buffer is   *)
(* closed, and an open brings back a leading part of it.                   *)
IsScrollback == History!Spec

(* mod.rs:7-13, history "persists across restarts and crashes": a line     *)
(* that was pushed is what get_line returns for its id.                    *)
ShowsWhatWasPushed == up => Shown = pushed

(* main.rs:320, "flush every tab's history to disk", and main.rs:328-332,  *)
(* "N total lines of history persisted": the next open finds every line.   *)
ShutdownPersistsAll == [][Shutdown => Open(disk').count = total]_vars
=============================================================================
