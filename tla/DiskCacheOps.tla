---------------------------- MODULE DiskCacheOps ----------------------------
(***************************************************************************)
(* The operations of struct DiskCache (src/src/disk_cache/mod.rs) as       *)
(* operators on a record, so that a caller can run several of them in one  *)
(* step, the way VirtualBuffer::push_line does.                            *)
(*                                                                         *)
(* A file and the BufWriter in front of it form one STREAM:                *)
(*    data  everything written through the handle, in order;               *)
(*    os    how much of data has been handed to the operating system, the  *)
(*          rest is in the BufWriter and dies with the process;            *)
(*    dur   how much of data has been fsynced, the rest of the os part     *)
(*          may die with the machine.                                      *)
(* Files are opened with append(true), so data only grows, whatever        *)
(* write_offset says.  The unit of length is a WORD: a record of line v    *)
(* in the .cache file is one header word and Size[v] payload words, a      *)
(* record of the .idx file is three words (an offset of two words, least   *)
(* significant first, and a length).                                       *)
(***************************************************************************)
EXTENDS Integers, Sequences

CONSTANTS Lines,      \* the encoded lines that may be appended
          Size,       \* Size[v]: payload words of line v
          CacheCap,   \* capacity of the .cache BufWriter, in words
          IndexCap,   \* capacity of the .idx BufWriter, in words
          Radix,      \* number of values of one word
          MaxFile     \* longest file the file system lets set_len make

ASSUME SizeAssumption == Size \in [Lines -> Nat]
ASSUME CapAssumption == CacheCap \in Nat \ {0} /\ IndexCap \in Nat \ {0}
ASSUME RadixAssumption == Radix \in Nat \ {0}
ASSUME MaxFileAssumption == MaxFile \in Nat

-----------------------------------------------------------------------------
(* Words and records.                                                      *)

HeaderWords == 1
IndexWords == 3

Header(v) == [len |-> Size[v]]
Zero == [len |-> 0]            \* what set_len writes when it extends a file
Content(v) == [k \in 1..Size[v] |-> [line |-> v, at |-> k]]

CacheWord == [len : Nat] \cup [line : Lines, at : Nat]

OffsetWords(off) == <<off % Radix, off \div Radix>>

(* The k-th whole record of an index file, the first being record 0.       *)
Entry(index, k) ==
  [off |-> index[IndexWords * k + 1] + Radix * index[IndexWords * k + 2],
   len |-> index[IndexWords * k + 3]]

WholeRecords(index) == Len(index) \div IndexWords

EndOf(e) == e.off + HeaderWords + e.len

-----------------------------------------------------------------------------
(* Streams: std::io::BufWriter over a file opened with append(true).       *)

StreamType(s, words) ==
  /\ s \in [data : Seq(words), os : Nat, dur : Nat]
  /\ s.dur <= s.os
  /\ s.os <= Len(s.data)

EmptyStream == [data |-> << >>, os |-> 0, dur |-> 0]

Buffered(s) == Len(s.data) - s.os

(* Whether a write of n words goes to the file at once: it does not fit in *)
(* what is left of the buffer.  Only such a write can fail.                *)
Spills(s, n, cap) == Buffered(s) + n > cap

Write(s, words, cap) ==
  LET data == s.data \o words
  IN [data |-> data,
      os |-> IF Len(words) >= cap THEN Len(data)
             ELSE IF Spills(s, Len(words), cap) THEN Len(s.data)
             ELSE s.os,
      dur |-> s.dur]

FlushStream(s) == [s EXCEPT !.os = Len(s.data)]
SyncStream(s) == [s EXCEPT !.dur = s.os]

(* What is left of a stream when n words of its file survive.              *)
Survives(s, n) ==
  [data |-> SubSeq(s.data, 1, n), os |-> n, dur |-> IF s.dur <= n THEN s.dur ELSE n]

(* File::set_len, which cuts a file or extends it with zeros.              *)
SetLen(s, n) ==
  [data |-> [k \in 1..n |-> IF k <= Len(s.data) THEN s.data[k] ELSE Zero],
   os |-> n, dur |-> IF s.dur <= n THEN s.dur ELSE n]

-----------------------------------------------------------------------------
(* struct DiskCache.                                                       *)

NoMmap == -1

DiskType(d) ==
  /\ d \in [cache : [data : Seq(CacheWord), os : Nat, dur : Nat],
            index : [data : Seq(Nat), os : Nat, dur : Nat],
            off : Nat, count : Nat, mmap : Nat \cup {NoMmap}]
  /\ StreamType(d.cache, CacheWord)
  /\ StreamType(d.index, Nat)

Disk(cache, index, off, count, mmap) ==
  [cache |-> cache, index |-> index, off |-> off, count |-> count, mmap |-> mmap]

Opened(cache, index, off, count) == Disk(cache, index, off, count, NoMmap)

(* The pair of files when no process has them open.                        *)
Closed(cache, index) == Opened(cache, index, 0, 0)

NewCache == Closed(EmptyStream, EmptyStream)

(* The first k of the four writes append_line makes: the length prefix and *)
(* the payload to .cache, the offset and the length to .idx.               *)
AppendWrites(d, v, k) ==
  LET c1 == IF k >= 1 THEN Write(d.cache, <<Header(v)>>, CacheCap) ELSE d.cache
      c2 == IF k >= 2 THEN Write(c1, Content(v), CacheCap) ELSE c1
      x1 == IF k >= 3 THEN Write(d.index, OffsetWords(d.off), IndexCap) ELSE d.index
      x2 == IF k >= 4 THEN Write(x1, <<Size[v]>>, IndexCap) ELSE x1
  IN Disk(c2, x2, d.off, d.count, d.mmap)

(* Mutants: the old mapping is kept; line_count is forgotten.              *)
AppendLine_KeepsMapping(d, v) ==
  [AppendWrites(d, v, 4) EXCEPT !.off = @ + HeaderWords + Size[v], !.count = @ + 1]

AppendLine_NoCount(d, v) ==
  LET a == AppendWrites(d, v, 4)
  IN Opened(a.cache, a.index, d.off + HeaderWords + Size[v], d.count)

(* write_offset, line_count and mmap move only once all four are made.     *)
AppendLine(d, v) ==
  LET a == AppendWrites(d, v, 4)
  IN Opened(a.cache, a.index, d.off + HeaderWords + Size[v], d.count + 1)

(* The write after the first k fails: append_line returns early.           *)
AppendCanFail(d, v, k) ==
  LET a == AppendWrites(d, v, k)
  IN CASE k = 0 -> Spills(a.cache, 1, CacheCap)
       [] k = 1 -> Spills(a.cache, Size[v], CacheCap)
       [] k = 2 -> Spills(a.index, 2, IndexCap)
       [] k = 3 -> Spills(a.index, 1, IndexCap)
       [] OTHER -> FALSE

(* Mutant: .idx first.                                                     *)
HalfFlushed_IndexFirst(d) == [d EXCEPT !.index = FlushStream(@)]

(* flush: .cache first, then .idx; and half way through.                   *)
HalfFlushed(d) == [d EXCEPT !.cache = FlushStream(@)]
Flush(d) == Disk(FlushStream(d.cache), FlushStream(d.index), d.off, d.count, d.mmap)

(* The ways flush can fail: at the first file or at the second.            *)
FlushFailures(d) == {d, HalfFlushed(d)}

(* Mutant: only the .cache file is fsynced.                                *)
Sync_CacheOnly(d) ==
  LET f == Flush(d)
  IN Disk(SyncStream(f.cache), f.index, d.off, d.count, d.mmap)

Sync(d) ==
  LET f == Flush(d)
  IN Disk(SyncStream(f.cache), SyncStream(f.index), d.off, d.count, d.mmap)

(* Mutant: a mapping of write_offset bytes, without a flush.               *)
AfterRead_NoFlush(d) == [d EXCEPT !.mmap = IF @ = NoMmap THEN d.off ELSE @]

(* What read_line leaves behind: it flushes, and maps the file if no       *)
(* append has thrown the mapping away since the last read.                 *)
AfterRead(d) ==
  LET f == Flush(d)
  IN Disk(f.cache, f.index, d.off, d.count,
          IF d.mmap = NoMmap THEN f.cache.os ELSE d.mmap)

(* What read_line(id) returns: the payload, or an error.                   *)
ReadFails == [ok |-> FALSE]

ReadLine(d, id) ==
  LET f == AfterRead(d)
      e == Entry(f.index.data, id)
  IN IF id >= d.count \/ WholeRecords(f.index.data) <= id \/ EndOf(e) > f.mmap
     THEN ReadFails
     ELSE [ok |-> TRUE, bytes |-> SubSeq(f.cache.data, e.off + HeaderWords + 1, EndOf(e))]

Returns(d, id, v) == ReadLine(d, id) = [ok |-> TRUE, bytes |-> Content(v)]

-----------------------------------------------------------------------------
(* recover() and the rest of open(), on the files the last process left.   *)

LastEnd(d) == EndOf(Entry(d.index.data, WholeRecords(d.index.data) - 1))
PrevEnd(d) == EndOf(Entry(d.index.data, WholeRecords(d.index.data) - 2))

(* The last record of the index ends beyond the end of the cache file.     *)
IndexAhead(d) ==
  WholeRecords(d.index.data) > 0 /\ Len(d.cache.data) < LastEnd(d)

KeepRecords(index, n) ==
  IF Len(index.data) = IndexWords * n THEN index ELSE Survives(index, IndexWords * n)

Open(d) ==
  LET n == WholeRecords(d.index.data)
  IN CASE n = 0 \/ (n = 1 /\ IndexAhead(d)) -> Opened(d.cache, d.index, 0, 0)
       [] n > 1 /\ IndexAhead(d) ->
            Opened(SetLen(d.cache, PrevEnd(d)), KeepRecords(d.index, n - 1), PrevEnd(d), n - 1)
       [] OTHER -> Opened(d.cache, KeepRecords(d.index, n), LastEnd(d), n)

(* Recovery cuts the index file, then sets the length of the cache file,   *)
(* which fails at least if that is more than the file system allows.       *)
OpenCuts(d) == WholeRecords(d.index.data) > 1 /\ IndexAhead(d)
OpenFails(d) == OpenCuts(d) /\ PrevEnd(d) > MaxFile

AfterFailedOpen(d) ==
  [d EXCEPT !.index = KeepRecords(@, WholeRecords(@.data) - 1)]

(* The files end where write_offset and line_count say they do.            *)
EndsAgree(d) ==
  /\ Len(d.cache.data) = d.off
  /\ Len(d.index.data) = IndexWords * d.count

(* The files after the process is gone: whatever was buffered is lost.     *)
Killed(d) ==
  Closed(Survives(d.cache, d.cache.os), Survives(d.index, d.index.os))

(* The files after the machine is gone: of each file, what was fsynced and *)
(* any prefix of what was not.                                             *)
PowerLosses(d) ==
  {Closed(Survives(d.cache, m), Survives(d.index, n)) :
     m \in d.cache.dur .. d.cache.os, n \in d.index.dur .. d.index.os}
=============================================================================
