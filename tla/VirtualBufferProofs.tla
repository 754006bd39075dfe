------------------------- MODULE VirtualBufferProofs -------------------------
(***************************************************************************)
(* For every line set, capacity and flush interval: as long as the only    *)
(* fault is a kill, the index file never runs ahead of the cache file, so  *)
(* recover never reaches its truncating branch, every line id keeps its    *)
(* place, on disk or in RAM, and what a kill costs is bounded.  While      *)
(* nothing fails at all, the buffer is a scrollback.                       *)
(***************************************************************************)
EXTENDS VirtualBuffer, DiskCacheOpsProofs

USE DEF IndexWords, HeaderWords

-----------------------------------------------------------------------------
(* The first n words of index x hold no record that ends beyond m.         *)
Covered(x, n, m) == \A k \in 0..n : 3 * k + 3 <= n => EndOf(Entry(x, k)) <= m

(* What has reached the system: f whole records, all within the cache file.*)
Held(d, f) ==
  /\ DiskType(d)
  /\ f \in Nat
  /\ d.index.os = 3 * f
  /\ Covered(d.index.data, d.index.os, d.cache.os)

(* The same of everything written, buffered or not.                        *)
Sound(d, f) ==
  /\ Held(d, f)
  /\ Covered(d.index.data, Len(d.index.data), Len(d.cache.data))

Settled(d) ==
  d.index.os = Len(d.index.data) /\ d.cache.os = Len(d.cache.data)

(* The handle knows where both files end, or, after an unclean end of the  *)
(* last process, believes the cache file to be shorter than it is.         *)
Placed(d) ==
  d.off <= Len(d.cache.data) /\ Len(d.index.data) = 3 * d.count

(* A kill inside push_line.                                                *)
KilledPush(v) == (\E k \in 1..4 : KillInPush(v, k)) \/ KillInFlush(v)

(* Records within a stretch that stays the same are covered by any cache   *)
(* file that is at least as long.                                          *)
LEMMA CoveredStable ==
  ASSUME NEW x, NEW y, NEW n, NEW m, NEW r,
         x \in Seq(Nat), n \in 0..Len(x), \A i \in 1..n : y[i] = x[i],
         m \in Nat, r \in Nat, m <= r, Covered(x, n, m)
  PROVE  Covered(y, n, r)
<1> SUFFICES ASSUME NEW k \in 0..n, 3 * k + 3 <= n
             PROVE  EndOf(Entry(y, k)) <= r
  BY DEF Covered
<1>1. Entry(y, k) = Entry(x, k)
  <2>1. k \in Nat /\ n \in Nat
    OBVIOUS
  <2> QED
    BY <2>1, EntryStable, SMTT(60)
<1>2. EndOf(Entry(x, k)) <= m
  BY DEF Covered
<1>3. EndOf(Entry(x, k)) \in Nat
  <2>1. k \in Nat /\ 3 * k + 3 <= Len(x)
    OBVIOUS
  <2> QED
    BY <2>1, EntryType
<1> QED
  BY <1>1, <1>2, <1>3

(* After a kill the system's words are all there is, and both buffers are  *)
(* empty.                                                                  *)
LEMMA KilledFacts ==
  ASSUME NEW d, NEW f, Held(d, f)
  PROVE  Sound(Killed(d), f) /\ Settled(Killed(d)) /\ Len(Killed(d).index.data) = d.index.os
<1> DEFINE c == Survives(d.cache, d.cache.os)
           x == Survives(d.index, d.index.os)
           e == Killed(d)
<1>1. /\ StreamType(d.cache, CacheWord) /\ StreamType(d.index, Nat)
      /\ d.cache.os \in 0..Len(d.cache.data) /\ d.index.os \in 0..Len(d.index.data)
      /\ d.index.data \in Seq(Nat)
  BY DEF Held, DiskType, StreamType
<1>2. StreamType(c, CacheWord) /\ c.os = d.cache.os /\ Len(c.data) = d.cache.os
  BY <1>1, SurvivesFacts
<1>3. /\ StreamType(x, Nat) /\ x.os = d.index.os /\ Len(x.data) = d.index.os
      /\ \A i \in 1..d.index.os : x.data[i] = d.index.data[i]
  BY <1>1, SurvivesFacts
<1>4. e = Disk(c, x, 0, 0, NoMmap)
  BY DEF Killed, Closed, Opened
<1> HIDE DEF c, x, e
<1>5. e.cache = c /\ e.index = x /\ DiskType(e)
  <2>1. 0 \in Nat /\ NoMmap \in Nat \cup {NoMmap}
    OBVIOUS
  <2>2. DiskType(Disk(c, x, 0, 0, NoMmap))
    BY <1>2, <1>3, <2>1, DiskHasType
  <2> QED
    BY <1>4, <2>2, DiskParts
<1>6. Covered(x.data, d.index.os, d.cache.os)
  <2>1. /\ Covered(d.index.data, d.index.os, d.cache.os)
        /\ d.cache.os \in Nat /\ d.cache.os <= d.cache.os
    BY <1>1 DEF Held
  <2> QED
    BY <1>1, <1>3, <2>1, CoveredStable
<1> QED
  BY <1>2, <1>3, <1>5, <1>6 DEF Sound, Held, Settled, e

(* Whatever flushes both streams: flush, sync and read_line.               *)
LEMMA FlushedFacts ==
  ASSUME NEW d, NEW f, Sound(d, f), NEW n \in Nat, Len(d.index.data) = 3 * n,
         NEW e, DiskType(e),
         e.cache.data = d.cache.data, e.cache.os = Len(d.cache.data),
         e.index.data = d.index.data, e.index.os = Len(d.index.data)
  PROVE  Sound(e, n) /\ Settled(e)
BY DEF Sound, Held, Settled

(* append_line stopped after k writes leaves the index file as the system  *)
(* has it, so nothing is held that was not.                                *)
LEMMA AppendHeld ==
  ASSUME NEW d, NEW f, Held(d, f), NEW v \in Lines, NEW k \in 0..4,
         Len(d.index.data) - d.index.os + 3 <= IndexCap
  PROVE  Held(AppendWrites(d, v, k), f)
<1> DEFINE a == AppendWrites(d, v, k)
<1>1. /\ DiskType(d) /\ DiskType(a)
      /\ d.cache.os <= a.cache.os
      /\ StartsWith(a.index.data, d.index.data)
      /\ a.index.os = d.index.os
  BY AppendWritesFacts DEF Held
<1> HIDE DEF a
<1>2. /\ d.index.data \in Seq(Nat) /\ d.index.os \in Nat /\ d.index.os <= Len(d.index.data)
      /\ d.cache.os \in Nat /\ a.cache.os \in Nat
  BY <1>1 DEF DiskType, StreamType
<1>3. \A i \in 1..d.index.os : a.index.data[i] = d.index.data[i]
  <2>1. \A i \in 1..Len(d.index.data) : a.index.data[i] = d.index.data[i]
    BY <1>1 DEF StartsWith
  <2>2. Len(d.index.data) \in Nat
    BY <1>2
  <2> QED
    BY <1>2, <2>1, <2>2
<1>4. Covered(a.index.data, d.index.os, a.cache.os)
  <2>1. Covered(d.index.data, d.index.os, d.cache.os) /\ d.cache.os <= a.cache.os
    BY <1>1 DEF Held
  <2>2. d.index.os \in 0..Len(d.index.data)
    BY <1>2
  <2> QED
    BY <1>2, <1>3, <2>1, <2>2, CoveredStable
<1> QED
  BY <1>1, <1>4 DEF Held, a

(* A whole append_line adds one record, within the words written.          *)
LEMMA AppendSound ==
  ASSUME NEW d, NEW f, Sound(d, f), Placed(d), NEW v \in Lines,
         Len(d.index.data) - d.index.os + 3 <= IndexCap
  PROVE  LET e == AppendLine(d, v)
         IN Sound(e, f) /\ Placed(e) /\ e.count = d.count + 1
<1> DEFINE a == AppendWrites(d, v, 4)
           e == AppendLine(d, v)
<1>1. /\ DiskType(d) /\ DiskType(a)
      /\ a.off = d.off /\ a.count = d.count
      /\ StartsWith(a.index.data, d.index.data)
      /\ Len(a.cache.data) = Len(d.cache.data) + 1 + Size[v]
      /\ Len(a.index.data) = Len(d.index.data) + 3
      /\ \A n \in Nat : Len(d.index.data) = 3 * n
           => Entry(a.index.data, n) = [off |-> d.off, len |-> Size[v]]
  BY AppendWritesFacts DEF Sound, Held
<1>2. Held(a, f)
  BY AppendHeld DEF Sound
<1>3. e = Disk(a.cache, a.index, d.off + 1 + Size[v], d.count + 1, NoMmap)
  BY DEF AppendLine, Opened
<1> HIDE DEF a, e
<1>4. /\ Size[v] \in Nat /\ d.off \in Nat /\ d.count \in Nat
      /\ StreamType(a.cache, CacheWord) /\ StreamType(a.index, Nat)
      /\ StreamType(d.cache, CacheWord) /\ StreamType(d.index, Nat)
  BY <1>1, DiskFields, SizeAssumption
<1>4a. /\ d.index.data \in Seq(Nat) /\ Len(d.index.data) \in Nat
       /\ d.cache.data \in Seq(CacheWord) /\ a.cache.data \in Seq(CacheWord)
       /\ Len(d.cache.data) \in Nat /\ Len(a.cache.data) \in Nat
  <2>1. d.index.data \in Seq(Nat)
    BY <1>4 DEF StreamType
  <2>2. d.cache.data \in Seq(CacheWord)
    BY <1>4 DEF StreamType
  <2>3. a.cache.data \in Seq(CacheWord)
    BY <1>4 DEF StreamType
  <2> QED
    BY <2>1, <2>2, <2>3
<1>5. /\ e.cache = a.cache /\ e.index = a.index
      /\ e.off = d.off + 1 + Size[v] /\ e.count = d.count + 1
      /\ DiskType(e)
  <2>1. /\ d.off + 1 + Size[v] \in Nat /\ d.count + 1 \in Nat
        /\ NoMmap \in Nat \cup {NoMmap}
    BY <1>4
  <2>2. DiskType(e)
    BY <1>3, <1>4, <2>1, DiskHasType, Zenon
  <2> QED
    BY <1>3, <2>2, DiskParts
<1>6. Covered(a.index.data, Len(a.index.data), Len(a.cache.data))
  <2> SUFFICES ASSUME NEW k \in 0..Len(a.index.data), 3 * k + 3 <= Len(a.index.data)
               PROVE  EndOf(Entry(a.index.data, k)) <= Len(a.cache.data)
    BY DEF Covered
  <2>1. CASE 3 * k + 3 <= Len(d.index.data)
    <3>1. Covered(a.index.data, Len(d.index.data), Len(a.cache.data))
      <4>1. Covered(d.index.data, Len(d.index.data), Len(d.cache.data))
        BY DEF Sound
      <4>2. \A i \in 1..Len(d.index.data) : a.index.data[i] = d.index.data[i]
        BY <1>1 DEF StartsWith
      <4>3. Len(d.cache.data) <= Len(a.cache.data)
        BY <1>1, <1>4, <1>4a
      <4>4. /\ Len(d.index.data) \in 0..Len(d.index.data)
            /\ d.index.data \in Seq(Nat)
            /\ Len(d.cache.data) \in Nat /\ Len(a.cache.data) \in Nat
        BY <1>4a
      <4> QED
        BY <4>1, <4>2, <4>3, <4>4, CoveredStable
    <3> QED
      BY <2>1, <3>1 DEF Covered
  <2>2. CASE ~(3 * k + 3 <= Len(d.index.data))
    <3>0. /\ Len(d.index.data) = 3 * d.count /\ d.count \in Nat
          /\ Len(a.index.data) = Len(d.index.data) + 3
      BY <1>1, <1>4 DEF Placed
    <3>1. k = d.count
      <4> DEFINE n == Len(d.index.data)
                 m == Len(a.index.data)
                 j == d.count
      <4>1. n = 3 * j /\ j \in Nat /\ m = n + 3 /\ 3 * k + 3 <= m /\ ~(3 * k + 3 <= n) /\ k \in Nat
        BY <2>2, <3>0
      <4> HIDE DEF n, m, j
      <4>2. k = j
        BY <4>1
      <4> QED
        BY <4>2 DEF j
    <3>2. Entry(a.index.data, k) = [off |-> d.off, len |-> Size[v]]
      BY <1>1, <3>0, <3>1
    <3>3. EndOf(Entry(a.index.data, k)) = d.off + 1 + Size[v]
      BY <3>2 DEF EndOf
    <3>4. d.off <= Len(d.cache.data)
      BY DEF Placed
    <3>5. Len(a.cache.data) = Len(d.cache.data) + 1 + Size[v]
      BY <1>1
    <3>6. Size[v] \in Nat /\ d.off \in Nat
      BY <1>4
    <3>7. d.off + 1 + Size[v] <= Len(d.cache.data) + 1 + Size[v]
      BY <1>4a, <3>4, <3>6
    <3> QED
      BY <3>3, <3>5, <3>7
  <2> QED
    BY <2>1, <2>2
<1>7. Sound(e, f)
  BY <1>2, <1>5, <1>6 DEF Sound, Held
<1>8. Placed(e)
  <2>1. d.off <= Len(d.cache.data)
    BY DEF Placed
  <2>2. Len(d.index.data) = 3 * d.count
    BY DEF Placed
  <2>3. Len(a.cache.data) = Len(d.cache.data) + 1 + Size[v]
    BY <1>1
  <2>4. Len(a.index.data) = Len(d.index.data) + 3
    BY <1>1
  <2>5. Size[v] \in Nat /\ d.off \in Nat /\ d.count \in Nat
    BY <1>4
  <2>6. Len(d.cache.data) \in Nat
    BY <1>4a
  <2>7. d.off + 1 + Size[v] <= Len(a.cache.data)
    BY <2>1, <2>3, <2>5, <2>6
  <2>8. Len(a.index.data) = 3 * (d.count + 1)
    BY <2>2, <2>4, <2>5
  <2> QED
    BY <1>5, <2>7, <2>8 DEF Placed
<1> QED
  BY <1>5, <1>7, <1>8 DEF e

(* recover takes its last branch only: nothing is cut, every record counts.*)
LEMMA OpenFacts ==
  ASSUME NEW d, NEW f, Sound(d, f), Settled(d)
  PROVE  /\ ~IndexAhead(d)
         /\ Sound(Open(d), f) /\ Settled(Open(d)) /\ Placed(Open(d))
         /\ Open(d).count = f
<1> DEFINE e == Open(d)
<1>1. /\ DiskType(d) /\ f \in Nat /\ Len(d.index.data) = 3 * f
      /\ d.index.data \in Seq(Nat) /\ Len(d.cache.data) \in Nat
  BY DEF Sound, Held, Settled, DiskType, StreamType
<1>2. WholeRecords(d.index.data) = f
  BY <1>1 DEF WholeRecords
<1>3. ASSUME f > 0
      PROVE  LastEnd(d) \in Nat /\ LastEnd(d) <= Len(d.cache.data)
  <2>1. f - 1 \in Nat /\ 3 * (f - 1) + 3 <= Len(d.index.data)
    BY <1>1, <1>3
  <2>2. EndOf(Entry(d.index.data, f - 1)) <= Len(d.cache.data)
    BY <2>1 DEF Sound, Covered
  <2>3. EndOf(Entry(d.index.data, f - 1)) \in Nat
    BY <1>1, <2>1, EntryType
  <2> QED
    BY <1>2, <2>2, <2>3 DEF LastEnd
<1>4. ~IndexAhead(d)
  BY <1>1, <1>2, <1>3 DEF IndexAhead
<1>5. KeepRecords(d.index, f) = d.index
  BY <1>1 DEF KeepRecords
<1>6. e = IF f = 0 THEN Opened(d.cache, d.index, 0, 0)
                   ELSE Opened(d.cache, d.index, LastEnd(d), f)
  BY <1>1, <1>2, <1>4, <1>5 DEF Open
<1> HIDE DEF e
<1>7. /\ e.cache = d.cache /\ e.index = d.index /\ e.count = f
      /\ e.off \in Nat /\ e.off <= Len(d.cache.data)
      /\ DiskType(e)
  <2> DEFINE o == IF f = 0 THEN 0 ELSE LastEnd(d)
  <2>1. o \in Nat /\ o <= Len(d.cache.data) /\ NoMmap \in Nat \cup {NoMmap}
    BY <1>1, <1>3
  <2>2. e = Disk(d.cache, d.index, o, f, NoMmap)
    BY <1>6 DEF Opened
  <2> HIDE DEF o
  <2>3. DiskType(e)
    BY <1>1, <2>1, <2>2, DiskFields, DiskHasType
  <2> QED
    BY <2>1, <2>2, <2>3, DiskParts
<1> QED
  BY <1>1, <1>4, <1>7 DEF Sound, Held, Settled, Placed, e

-----------------------------------------------------------------------------
(* The inductive invariant.  LinesSplit says where each line is, but not   *)
(* that the files agree with it after a kill: for that, what has reached   *)
(* the system must be whole records (Sound), the handle must know where    *)
(* its files end (Placed), and the records that have not reached the       *)
(* system must be no more than dirty_since_sync counts, which leaves room  *)
(* for the next one in the .idx buffer.                                    *)
UpInv ==
  /\ Placed(disk)
  /\ disk.count - firm <= dirty
  /\ disk.count + Len(ram) = total

Inv ==
  /\ TypeOK
  /\ firm <= MaxLines
  /\ Sound(disk, firm)
  /\ up => UpInv
  /\ ~up => Settled(disk)

(* After a flush, a sync or a read the system has every record.            *)
LEMMA FlushedSound ==
  ASSUME NEW d, NEW f, Sound(d, f), Placed(d),
         NEW e \in {Flush(d), Sync(d), AfterRead(d)}
  PROVE  /\ Sound(e, d.count) /\ Settled(e) /\ Placed(e)
         /\ e.count = d.count
<1>1. DiskType(d)
  BY DEF Sound, Held
<1>2. /\ DiskType(e) /\ e.off = d.off /\ e.count = d.count
      /\ e.cache.data = d.cache.data /\ e.cache.os = Len(d.cache.data)
      /\ e.index.data = d.index.data /\ e.index.os = Len(d.index.data)
  BY <1>1, FlushFacts
<1>3. d.count \in Nat /\ Len(d.index.data) = 3 * d.count
  BY <1>1, DiskFields DEF Placed
<1>4. Sound(e, d.count) /\ Settled(e)
  BY <1>2, <1>3, FlushedFacts
<1> QED
  BY <1>2, <1>4 DEF Placed

(* There is room for one more record in the .idx buffer.                   *)
LEMMA Room ==
  ASSUME Inv, up
  PROVE  Len(disk.index.data) - disk.index.os + 3 <= IndexCap
<1>1. /\ Len(disk.index.data) = 3 * disk.count
      /\ disk.count - firm <= dirty
  BY DEF Inv, UpInv, Placed
<1>2. disk.index.os = 3 * firm
  BY DEF Inv, Sound, Held
<1>3. disk.count \in Nat /\ firm \in Nat /\ dirty \in 0..SyncEvery - 1
  BY DiskFields DEF Inv, TypeOK
<1>4. SyncEvery \in Nat /\ IndexCap \in Nat /\ 3 * SyncEvery <= IndexCap
  BY SyncAssumption, CapAssumption, BufferAssumption
<1>5. 3 * disk.count - 3 * firm + 3 <= 3 * SyncEvery
  BY <1>1, <1>3, <1>4
<1> QED
  BY <1>1, <1>2, <1>3, <1>4, <1>5

(* The first state, with empty files.                                      *)
LEMMA InitInv ==
  Init => Inv
<1> SUFFICES ASSUME Init
             PROVE  Inv
  OBVIOUS
<1> DEFINE z == EmptyStream
<1>1. StreamType(z, CacheWord) /\ StreamType(z, Nat) /\ z.os = 0 /\ Len(z.data) = 0
  BY DEF EmptyStream, StreamType
<1>2. disk = Disk(z, z, 0, 0, NoMmap)
  BY DEF Init, NewCache, Closed, Opened
<1> HIDE DEF z
<1>3. 0 \in Nat /\ NoMmap \in Nat \cup {NoMmap}
  OBVIOUS
<1>4. DiskType(Disk(z, z, 0, 0, NoMmap))
  BY <1>1, <1>3, DiskHasType
<1>5. DiskType(disk) /\ disk.cache = z /\ disk.index = z
  BY <1>2, <1>4, DiskParts
<1>6. TypeOK
  <2>1. /\ ram \in Seq(Lines) /\ Len(ram) = 0 /\ pushed \in Seq(Lines)
        /\ total = 0 /\ dirty = 0 /\ firm = 0 /\ opens = 0
        /\ aligned = 0 /\ skipped = 0
        /\ indexed = {} /\ up = FALSE
    BY DEF Init
  <2>2. /\ 0 \in 0..MaxLines /\ 0 \in 0..MaxOpens /\ 0 \in 0..SyncEvery - 1
        /\ 0 <= RamCapacity
    BY SyncAssumption, RamAssumption, BoundsAssumption
  <2> QED
    BY <1>5, <2>1, <2>2 DEF TypeOK
<1>7. Sound(disk, 0)
  BY <1>1, <1>5 DEF Sound, Held, Covered
<1> QED
  BY <1>1, <1>5, <1>6, <1>7, BoundsAssumption DEF Init, Inv, Settled

(* The lines at the true end of the files are some number.                *)
LEMMA AlignedType ==
  ASSUME aligned \in Nat, DiskType(disk'), Aligning
  PROVE  aligned' \in Nat
<1>1. disk'.count \in Nat
  BY DiskFields
<1> QED
  BY <1>1 DEF Aligning

(* push_line with all it calls: eviction, append and the flush that is     *)
(* due.                                                                    *)
LEMMA PushLineInv ==
  ASSUME Inv, "io" \notin Faults, NEW v \in Lines, PushLine(v)
  PROVE  Inv'
<1>1. /\ up /\ total < MaxLines /\ total' = total + 1
      /\ indexed' = indexed \cup {total} /\ pushed' = Append(pushed, v)
      /\ up' = up /\ opens' = opens /\ skipped' = skipped
      /\ Keep(v) \/ Evict(v)
  BY DEF PushLine
<1>2. /\ DiskType(disk) /\ ram \in Seq(Lines) /\ Len(ram) <= RamCapacity
      /\ total \in 0..MaxLines /\ dirty \in 0..SyncEvery - 1
      /\ indexed \in SUBSET Nat /\ up \in BOOLEAN /\ pushed \in Seq(Lines)
      /\ firm \in Nat /\ opens \in 0..MaxOpens /\ aligned \in Nat /\ skipped \in Nat
      /\ Sound(disk, firm) /\ Placed(disk) /\ firm <= MaxLines
      /\ disk.count - firm <= dirty /\ disk.count + Len(ram) = total
  BY <1>1 DEF Inv, UpInv, TypeOK
<1>3. /\ total' \in 0..MaxLines /\ indexed' \in SUBSET Nat /\ pushed' \in Seq(Lines)
      /\ up' = TRUE /\ opens' \in 0..MaxOpens /\ skipped' \in Nat
  BY <1>1, <1>2, BoundsAssumption
<1>4. disk.count \in Nat /\ Len(ram) \in Nat /\ SyncEvery \in Nat /\ RamCapacity \in Nat
  BY <1>2, DiskFields, SyncAssumption, RamAssumption
<1>5. CASE Keep(v)
  <2>1. /\ Len(ram) < RamCapacity /\ ram' = Append(ram, v)
        /\ disk' = disk /\ dirty' = dirty /\ firm' = firm /\ aligned' = aligned
    BY <1>5 DEF Keep
  <2>2. ram' \in Seq(Lines) /\ Len(ram') = Len(ram) + 1
    BY <1>2, <2>1
  <2>3. Len(ram') <= RamCapacity /\ disk.count + Len(ram') = total'
    <3>1. total' = total + 1 /\ disk.count + Len(ram) = total /\ Len(ram) < RamCapacity
      BY <1>1, <1>2, <2>1
    <3> QED
      BY <1>4, <2>2, <3>1
  <2> QED
    BY <1>2, <1>3, <2>1, <2>2, <2>3 DEF Inv, UpInv, TypeOK
<1>6. CASE Evict(v)
  <2> DEFINE w == Head(Append(ram, v))
             d == AppendLine(disk, w)
  <2>1. /\ Append(ram, v) \in Seq(Lines) /\ Len(Append(ram, v)) = Len(ram) + 1
        /\ Append(ram, v) # << >>
    BY <1>2
  <2>2. /\ w \in Lines
        /\ ram' \in Seq(Lines) /\ Len(ram') = Len(ram)
    <3>1. ram' = Tail(Append(ram, v))
      BY <1>6 DEF Evict
    <3> QED
      BY <1>4, <2>1, <3>1
  <2>3. Spilled(w) = {d}
    BY DEF Spilled
  <2>4. \/ dirty + 1 < SyncEvery /\ disk' = d /\ dirty' = dirty + 1 /\ firm' = firm
        \/ ~(dirty + 1 < SyncEvery) /\ dirty' = 0 /\ disk' = Flush(d) /\ firm' = d.count
    BY <1>6, <2>3 DEF Evict
  <2> HIDE DEF w
  <2>5. Sound(d, firm) /\ Placed(d) /\ d.count = disk.count + 1
    BY <1>1, <1>2, <2>2, Room, AppendSound
  <2> HIDE DEF d
  <2>6. CASE dirty + 1 < SyncEvery /\ disk' = d /\ dirty' = dirty + 1 /\ firm' = firm
    <3>1. DiskType(disk') /\ aligned' \in Nat
      BY <1>2, <1>6, <2>5, <2>6, AlignedType DEF Sound, Held, Evict
    <3>2. disk'.count - firm' <= dirty' /\ disk'.count + Len(ram') = total'
      <4>1. /\ disk'.count = disk.count + 1 /\ Len(ram') = Len(ram)
            /\ dirty' = dirty + 1 /\ firm' = firm /\ total' = total + 1
        BY <1>1, <2>2, <2>5, <2>6
      <4>2. disk.count - firm <= dirty /\ disk.count + Len(ram) = total
        BY <1>2
      <4>3. /\ disk.count \in Nat /\ Len(ram) \in Nat /\ total \in Nat
            /\ dirty \in Nat /\ firm \in Nat
        BY <1>2, <1>4, BoundsAssumption
      <4> QED
        BY <4>1, <4>2, <4>3
    <3>3. dirty' \in 0..SyncEvery - 1
      BY <1>2, <1>4, <2>6
    <3> QED
      BY <1>2, <1>3, <2>2, <2>5, <2>6, <3>1, <3>2, <3>3 DEF Inv, UpInv, TypeOK
  <2>7. CASE dirty' = 0 /\ disk' = Flush(d) /\ firm' = d.count
    <3>1. /\ Sound(disk', firm') /\ Placed(disk') /\ disk'.count = firm'
      BY <2>5, <2>7, FlushedSound
    <3>2. DiskType(disk') /\ aligned' \in Nat
      BY <1>2, <1>6, <3>1, AlignedType DEF Sound, Held, Evict
    <3>3. /\ firm' \in Nat /\ disk'.count - firm' <= dirty'
          /\ disk'.count + Len(ram') = total' /\ firm' <= total'
      <4>1. /\ disk'.count = disk.count + 1 /\ firm' = disk.count + 1
            /\ Len(ram') = Len(ram) /\ dirty' = 0 /\ total' = total + 1
        BY <1>1, <2>2, <2>5, <2>7, <3>1
      <4>2. disk.count + Len(ram) = total
        BY <1>2
      <4>3. disk.count \in Nat /\ Len(ram) \in Nat /\ total \in Nat
        BY <1>2, <1>4, BoundsAssumption
      <4> QED
        BY <4>1, <4>2, <4>3
    <3>4. firm' <= MaxLines
      BY <1>3, <3>3, BoundsAssumption
    <3>5. dirty' \in 0..SyncEvery - 1
      BY <2>7, SyncAssumption
    <3> QED
      BY <1>2, <1>3, <2>2, <3>1, <3>2, <3>3, <3>4, <3>5 DEF Inv, UpInv, TypeOK
  <2> QED
    BY <2>4, <2>6, <2>7
<1> QED
  BY <1>1, <1>5, <1>6

(* ReadDisk and Checkpoint.                                                *)
LEMMA FlushingInv ==
  ASSUME Inv, up, disk' \in {Sync(disk), AfterRead(disk)}, firm' = disk.count,
         UNCHANGED <<ram, total, dirty, indexed, up, pushed, aligned, skipped, opens>>
  PROVE  Inv'
<1>1. TypeOK /\ Sound(disk, firm) /\ Placed(disk) /\ disk.count + Len(ram) = total
  BY DEF Inv, UpInv
<1>2. /\ Sound(disk', firm') /\ Placed(disk') /\ disk'.count = disk.count
  BY <1>1, FlushedSound
<1>3. DiskType(disk')
  BY <1>2 DEF Sound, Held
<1>4. /\ disk.count \in Nat /\ Len(ram) \in Nat /\ total \in 0..MaxLines /\ dirty \in 0..SyncEvery - 1
  BY <1>1, DiskFields DEF TypeOK
<1>5. /\ firm' \in Nat /\ firm' <= MaxLines /\ disk'.count - firm' <= dirty
  BY <1>1, <1>2, <1>4, BoundsAssumption, SyncAssumption
<1> QED
  BY <1>1, <1>2, <1>3, <1>5 DEF Inv, UpInv, TypeOK

(* A flush stopped after its first file holds what was held.               *)
LEMMA HalfHeld ==
  ASSUME NEW d, NEW f, Held(d, f)
  PROVE  Held(HalfFlushed(d), f)
<1> DEFINE e == HalfFlushed(d)
<1>1. DiskType(d)
  BY DEF Held
<1>2. /\ DiskType(e) /\ e.index = d.index /\ e.cache.os = Len(d.cache.data)
      /\ d.cache.os <= e.cache.os
  BY <1>1, HalfFlushedFacts
<1> HIDE DEF e
<1>3. /\ d.index.data \in Seq(Nat) /\ d.index.os \in 0..Len(d.index.data)
      /\ d.cache.os \in Nat /\ e.cache.os \in Nat
  BY <1>1, <1>2, DiskData
<1>4. \A i \in 1..d.index.os : e.index.data[i] = d.index.data[i]
  BY <1>2
<1>5. Covered(d.index.data, d.index.os, d.cache.os)
  BY DEF Held
<1>6. Covered(e.index.data, d.index.os, e.cache.os)
  BY <1>2, <1>3, <1>4, <1>5, CoveredStable
<1> QED
  BY <1>2, <1>6 DEF Held, e

(* Shutdown, Kill and a kill in push_line: the files keep what reached the system.  *)
LEMMA StopInv ==
  ASSUME Inv, NEW d, Held(d, firm'), firm' \in Nat, firm' <= MaxLines,
         disk' = Killed(d), up' = FALSE, pushed' \in Seq(Lines),
         UNCHANGED <<ram, total, dirty, indexed, aligned, skipped, opens>>
  PROVE  Inv'
<1>1. Sound(disk', firm') /\ Settled(disk')
  BY KilledFacts
<1>2. DiskType(disk')
  BY <1>1 DEF Sound, Held
<1> QED
  BY <1>1, <1>2 DEF Inv, TypeOK

(* A shutdown syncs the disk cache.                                        *)
LEMMA ShutdownInv ==
  ASSUME Inv, "io" \notin Faults, Shutdown
  PROVE  Inv'
<1>1. up /\ disk' = Killed(Sync(disk)) /\ firm' = disk.count
  BY DEF Shutdown
<1>2. TypeOK /\ Sound(disk, firm) /\ Placed(disk) /\ disk.count + Len(ram) = total
  BY <1>1 DEF Inv, UpInv
<1>3. Held(Sync(disk), firm')
  BY <1>1, <1>2, FlushedSound DEF Sound
<1>4. /\ disk.count \in Nat /\ Len(ram) \in Nat /\ total \in 0..MaxLines
  BY <1>2, DiskFields DEF TypeOK
<1>5. firm' \in Nat /\ firm' <= MaxLines
  BY <1>1, <1>2, <1>4, BoundsAssumption
<1> QED
  BY <1>1, <1>3, <1>5, StopInv DEF Shutdown, Inv, TypeOK

(* A kill between two calls, or half way through a flush.                  *)
LEMMA KillInv ==
  ASSUME Inv, Kill
  PROVE  Inv'
<1>1. /\ Held(disk, firm') /\ firm' \in Nat /\ firm' <= MaxLines
      /\ up' = FALSE /\ pushed' \in Seq(Lines)
      /\ UNCHANGED <<ram, total, dirty, indexed, aligned, skipped, opens>>
  BY DEF Inv, TypeOK, Sound, Kill
<1>2. Held(HalfFlushed(disk), firm')
  BY <1>1, HalfHeld
<1>3. disk' = Killed(disk) \/ disk' = Killed(HalfFlushed(disk))
  BY DEF Kill
<1> QED
  BY <1>1, <1>2, <1>3, StopInv

(* RAM with one more line, and the oldest that is evicted from it.         *)
LEMMA OldestFacts ==
  ASSUME ram \in Seq(Lines), NEW v \in Lines
  PROVE  /\ Append(ram, v) \in Seq(Lines) /\ Append(ram, v) # << >>
         /\ Head(Append(ram, v)) \in Lines
         /\ Tail(Append(ram, v)) \in Seq(Lines) /\ Len(Tail(Append(ram, v))) = Len(ram)
<1>1. /\ Append(ram, v) \in Seq(Lines) /\ Append(ram, v) # << >>
      /\ Len(Append(ram, v)) = Len(ram) + 1 /\ Len(ram) \in Nat
  OBVIOUS
<1> QED
  BY <1>1

(* A kill inside push_line, after any of the four writes or half way       *)
(* through the flush that is due.                                          *)
LEMMA KilledInPushInv ==
  ASSUME Inv, NEW v \in Lines,
         KilledPush(v)
  PROVE  Inv'
<1> DEFINE w == Head(Append(ram, v))
<1>1. /\ up /\ up' = FALSE /\ firm' = firm /\ pushed' = Append(pushed, v)
      /\ UNCHANGED <<ram, total, dirty, indexed, aligned, skipped, opens>>
      /\ \/ \E k \in 1..4 : disk' = Killed(AppendWrites(disk, w, k))
         \/ disk' = Killed(HalfFlushed(AppendLine(disk, w)))
  BY DEF KilledPush, KillInPush, KillInFlush, KilledInPush
<1>2. w \in Lines
  <2>1. ram \in Seq(Lines)
    BY DEF Inv, TypeOK
  <2> QED
    BY <2>1, OldestFacts
<1> HIDE DEF w
<1>3. /\ Sound(disk, firm) /\ Placed(disk)
      /\ Len(disk.index.data) - disk.index.os + 3 <= IndexCap
  BY <1>1, Room DEF Inv, UpInv
<1>4. \A k \in 1..4 : Held(AppendWrites(disk, w, k), firm)
  <2>1. 1..4 \subseteq 0..4
    OBVIOUS
  <2> QED
    BY <1>2, <1>3, <2>1, AppendHeld DEF Sound
<1>5. Held(HalfFlushed(AppendLine(disk, w)), firm)
  <2>1. Sound(AppendLine(disk, w), firm)
    BY <1>2, <1>3, AppendSound
  <2> QED
    BY <2>1, HalfHeld DEF Sound
<1>6. PICK d : Held(d, firm) /\ disk' = Killed(d)
  BY <1>1, <1>4, <1>5
<1>7. firm' \in Nat /\ firm' <= MaxLines /\ pushed' \in Seq(Lines)
  BY <1>1 DEF Inv, TypeOK
<1> QED
  BY <1>1, <1>6, <1>7, StopInv

(* An open counts exactly the records the system had.                      *)
LEMMA ReopenInv ==
  ASSUME Inv, Reopen
  PROVE  Inv' /\ disk'.count = firm
<1> DEFINE d == Open(disk)
<1>1. /\ ~up /\ opens < MaxOpens /\ opens' = opens + 1
      /\ disk' = IF 0 < d.count /\ d.count <= RebuildCap THEN AfterRead(d) ELSE d
      /\ total' = d.count /\ indexed' = Rebuilt(d)
      /\ pushed' = SubSeq(pushed, 1, Lesser(Len(pushed), d.count))
      /\ ram' = << >> /\ dirty' = 0 /\ up' = TRUE /\ firm' = disk'.count
      /\ aligned' = Lesser(aligned, d.count)
      /\ skipped' = IF d.count > RebuildCap THEN d.count ELSE 0
  BY DEF Reopen
<1>2. TypeOK /\ Sound(disk, firm) /\ Settled(disk) /\ firm <= MaxLines /\ firm \in Nat
  BY <1>1 DEF Inv, TypeOK
<1>3. Sound(d, firm) /\ Settled(d) /\ Placed(d) /\ d.count = firm
  BY <1>2, OpenFacts
<1> HIDE DEF d
<1>4. Sound(disk', firm) /\ Placed(disk') /\ disk'.count = firm
  BY <1>1, <1>3, FlushedSound
<1>5. DiskType(disk')
  BY <1>4 DEF Sound, Held
<1>6. ram' \in Seq(Lines) /\ Len(ram') = 0
  BY <1>1
<1>7. pushed' \in Seq(Lines)
  <2>1. pushed \in Seq(Lines) /\ Len(pushed) \in Nat
    BY <1>2 DEF TypeOK
  <2>2. Lesser(Len(pushed), firm) \in 0..Len(pushed)
    BY <1>2, <2>1 DEF Lesser
  <2> QED
    BY <1>1, <1>3, <2>1, <2>2
<1>8. indexed' \in SUBSET Nat
  <2>1. Rebuilt(d) \subseteq 0..d.count - 1
    BY DEF Rebuilt
  <2>2. 0..firm - 1 \subseteq Nat
    BY <1>2
  <2> QED
    BY <1>1, <1>3, <2>1, <2>2
<1>9. /\ total' \in 0..MaxLines /\ opens' \in 0..MaxOpens /\ dirty' \in 0..SyncEvery - 1
      /\ disk'.count - firm' <= dirty' /\ disk'.count + Len(ram') = total'
      /\ Len(ram') <= RamCapacity
  BY <1>1, <1>2, <1>3, <1>4, <1>6, SyncAssumption, RamAssumption, BoundsAssumption DEF TypeOK
<1>10. aligned' \in Nat /\ skipped' \in Nat
  BY <1>1, <1>2, <1>3 DEF TypeOK, Lesser
<1>11. TypeOK'
  BY <1>1, <1>2, <1>4, <1>5, <1>6, <1>7, <1>8, <1>9, <1>10 DEF TypeOK
<1> QED
  BY <1>1, <1>2, <1>4, <1>9, <1>11 DEF Inv, UpInv

(* Every step, when no write fails.                                        *)
LEMMA StepInv ==
  ASSUME Inv, "io" \notin Faults, [Next]_vars
  PROVE  Inv'
<1>1. CASE \E v \in Lines : PushLine(v)
  BY <1>1, PushLineInv
<1>2. CASE ReadDisk
  BY <1>2, FlushingInv DEF ReadDisk
<1>3. CASE Checkpoint
  BY <1>3, FlushingInv DEF Checkpoint
<1>4. CASE Shutdown
  BY <1>4, ShutdownInv
<1>5. CASE Kill
  BY <1>5, KillInv
<1>6. CASE Reopen
  BY <1>6, ReopenInv
<1>7. CASE \E v \in Lines : KilledPush(v)
  BY <1>7, KilledInPushInv
<1>8. CASE UNCHANGED vars
  BY <1>8 DEF vars, Inv, UpInv, TypeOK
<1> QED
  BY <1>1, <1>2, <1>3, <1>4, <1>5, <1>6, <1>7, <1>8 DEF Next, KilledPush

(* So the invariant holds for ever.                                        *)
LEMMA SpecInv ==
  ASSUME "io" \notin Faults
  PROVE  Spec => []Inv
<1>1. Init => Inv
  BY InitInv
<1>2. Inv /\ [Next]_vars => Inv'
  BY StepInv
<1> QED
  BY <1>1, <1>2, PTL DEF Spec

-----------------------------------------------------------------------------
(* RAM stays within its capacity and the flush counter below its limit,    *)
(* through any number of kills and reopenings (push_line, mod.rs:105-130). *)
THEOREM TypeCorrect ==
  ASSUME "io" \notin Faults
  PROVE  Spec => []TypeOK
<1>1. Inv => TypeOK
  BY DEF Inv
<1> QED
  BY <1>1, SpecInv, PTL

(* While no write fails, the lines on disk and the lines in RAM are all    *)
(* the lines there are, whatever kills came before (mod.rs:15-18): the id  *)
(* arithmetic of get_line and get_range is right.                          *)
THEOREM LinesAreSplit ==
  ASSUME "io" \notin Faults
  PROVE  Spec => []LinesSplit
<1>1. Inv => LinesSplit
  BY DEF Inv, UpInv, LinesSplit
<1> QED
  BY <1>1, SpecInv, PTL

(* No kill leaves an index record whose line is not whole in the cache     *)
(* file, because a record in the .idx buffer never gets out on its own.    *)
THEOREM IndexIsCovered ==
  ASSUME "io" \notin Faults
  PROVE  Spec => []IndexCovered
<1>1. ASSUME Inv
      PROVE  IndexCovered
  <2>1. firm \in Nat /\ disk.index.os = 3 * firm
    BY <1>1 DEF Inv, TypeOK, Sound, Held
  <2>2. Covered(disk.index.data, disk.index.os, disk.cache.os)
    BY <1>1 DEF Inv, Sound, Held
  <2>3. ASSUME NEW k \in 0..(disk.index.os \div 3) - 1
        PROVE  k \in 0..disk.index.os /\ 3 * k + 3 <= disk.index.os
    BY <2>1
  <2> QED
    BY <2>2, <2>3 DEF Covered, IndexCovered
<1> QED
  BY <1>1, SpecInv, PTL

(* So recover has nothing to cut: its truncating branch (disk_cache/       *)
(* mod.rs:220-240) is never taken on files that a killed session left.     *)
THEOREM RecoverCutsNoLine ==
  ASSUME "io" \notin Faults
  PROVE  Spec => [](~up => ~IndexAhead(disk))
<1>1. Inv => (~up => ~IndexAhead(disk))
  BY OpenFacts DEF Inv
<1> QED
  BY <1>1, SpecInv, PTL

-----------------------------------------------------------------------------
(* The newest lines are in RAM, whatever fails.  The disk is allowed any   *)
(* content here; the ids come from total_lines and the length of RAM.      *)
Newest(r, p) ==
  /\ Len(r) <= Len(p)
  /\ \A i \in 0..Len(r) - 1 : r[Len(r) - i] = p[Len(p) - i]

RamInv ==
  /\ DiskType(disk)
  /\ ram \in Seq(Lines) /\ total \in Nat /\ pushed \in Seq(Lines)
  /\ up => Len(ram) <= total /\ Newest(ram, pushed)

(* A line pushed to RAM and to the history is the newest of both.          *)
LEMMA NewestAppend ==
  ASSUME NEW r \in Seq(Lines), NEW p \in Seq(Lines), Newest(r, p), NEW v \in Lines
  PROVE  Newest(Append(r, v), Append(p, v))
<1> DEFINE s == Append(r, v)
           q == Append(p, v)
<1>1. /\ Len(r) \in Nat /\ Len(p) \in Nat
      /\ Len(s) = Len(r) + 1 /\ Len(q) = Len(p) + 1
      /\ s[Len(r) + 1] = v /\ \A i \in 1..Len(r) : s[i] = r[i]
      /\ q[Len(p) + 1] = v /\ \A i \in 1..Len(p) : q[i] = p[i]
  BY AppendProperties
<1> HIDE DEF s, q
<1>2. Len(r) <= Len(p) /\ \A i \in 0..Len(r) - 1 : r[Len(r) - i] = p[Len(p) - i]
  BY DEF Newest
<1>3. ASSUME NEW i \in 0..Len(s) - 1
      PROVE  s[Len(s) - i] = q[Len(q) - i]
  <2>1. CASE i = 0
    BY <1>1, <2>1
  <2>2. CASE i # 0
    <3>1. i - 1 \in 0..Len(r) - 1 /\ Len(r) - (i - 1) \in 1..Len(r)
          /\ Len(p) - (i - 1) \in 1..Len(p)
      BY <1>1, <1>2, <2>2
    <3>2. r[Len(r) - (i - 1)] = p[Len(p) - (i - 1)]
      BY <1>2, <3>1
    <3>3. Len(s) - i = Len(r) - (i - 1) /\ Len(q) - i = Len(p) - (i - 1)
      BY <1>1
    <3> QED
      BY <1>1, <3>1, <3>2, <3>3
  <2> QED
    BY <2>1, <2>2
<1>4. Len(s) <= Len(q)
  BY <1>1, <1>2
<1> QED
  BY <1>3, <1>4 DEF Newest, s, q

(* The newest lines without the oldest of them are the newest.             *)
LEMMA NewestTail ==
  ASSUME NEW r \in Seq(Lines), NEW p \in Seq(Lines), Newest(r, p), r # << >>
  PROVE  Newest(Tail(r), p)
<1> DEFINE s == Tail(r)
<1>1. /\ Len(r) \in Nat /\ Len(r) > 0 /\ Len(p) \in Nat
      /\ Len(s) = Len(r) - 1 /\ \A i \in 1..Len(s) : s[i] = r[i + 1]
  OBVIOUS
<1> HIDE DEF s
<1>2. Len(r) <= Len(p) /\ \A i \in 0..Len(r) - 1 : r[Len(r) - i] = p[Len(p) - i]
  BY DEF Newest
<1>3. ASSUME NEW i \in 0..Len(s) - 1
      PROVE  s[Len(s) - i] = p[Len(p) - i]
  <2>1. i \in 0..Len(r) - 1 /\ Len(s) - i \in 1..Len(s) /\ Len(s) - i + 1 = Len(r) - i
    BY <1>1
  <2>2. s[Len(s) - i] = r[Len(r) - i]
    BY <1>1, <2>1
  <2> QED
    BY <1>2, <2>1, <2>2
<1>4. Len(s) <= Len(p)
  BY <1>1, <1>2
<1> QED
  BY <1>3, <1>4 DEF Newest, s

(* Whatever becomes of an append, failed or not, the cache keeps its type. *)
LEMMA SpilledType ==
  ASSUME DiskType(disk), NEW v \in Lines, NEW d \in Spilled(v)
  PROVE  DiskType(d)
<1>1. CASE d = AppendLine(disk, v)
  BY <1>1, AppendLineFacts
<1>2. CASE \E k \in 0..3 : d = AppendWrites(disk, v, k)
  <2>1. PICK k \in 0..3 : d = AppendWrites(disk, v, k)
    BY <1>2
  <2>2. k \in 0..4
    OBVIOUS
  <2> QED
    BY <2>1, <2>2, AppendWritesFacts
<1> QED
  BY <1>1, <1>2 DEF Spilled

(* So it does when a flush fails on the first or the second file.          *)
LEMMA FlushFailureType ==
  ASSUME NEW d, DiskType(d), NEW e \in FlushFailures(d) \cup {[d EXCEPT !.index = FlushStream(@)]}
  PROVE  DiskType(e)
BY HalfFlushFacts

(* push_line keeps the newest lines in RAM, whatever the disk does.        *)
LEMMA PushRamInv ==
  ASSUME RamInv, NEW v \in Lines, PushLine(v)
  PROVE  RamInv'
<1>1. /\ up /\ up' = up /\ total' = total + 1 /\ pushed' = Append(pushed, v)
      /\ Keep(v) \/ Evict(v)
  BY DEF PushLine
<1>2. /\ DiskType(disk) /\ ram \in Seq(Lines) /\ Len(ram) \in Nat /\ total \in Nat
      /\ pushed \in Seq(Lines) /\ Len(ram) <= total /\ Newest(ram, pushed)
  BY <1>1 DEF RamInv
<1>3. pushed' \in Seq(Lines) /\ Newest(Append(ram, v), pushed') /\ total' \in Nat
  BY <1>1, <1>2, NewestAppend
<1>4. CASE Keep(v)
  <2>1. ram' = Append(ram, v) /\ disk' = disk
    BY <1>4 DEF Keep
  <2>2. ram' \in Seq(Lines) /\ Len(ram') = Len(ram) + 1
    BY <1>2, <2>1
  <2>3. Len(ram') <= total'
    BY <1>1, <1>2, <2>2
  <2> QED
    BY <1>1, <1>2, <1>3, <2>1, <2>2, <2>3 DEF RamInv
<1>5. CASE Evict(v)
  <2> DEFINE r == Append(ram, v)
  <2>1. /\ r \in Seq(Lines) /\ r # << >> /\ Head(r) \in Lines
        /\ Tail(r) \in Seq(Lines) /\ Len(Tail(r)) = Len(ram)
    BY <1>2, OldestFacts
  <2>2. PICK d \in Spilled(Head(r)) : disk' = d \/ disk' = Flush(d) \/ disk' \in FlushFailures(d)
    BY <1>5 DEF Evict
  <2>3. ram' = Tail(r)
    BY <1>5 DEF Evict
  <2> HIDE DEF r
  <2>4. DiskType(d)
    BY <1>2, <2>1, <2>2, SpilledType
  <2>5. DiskType(disk')
    BY <2>2, <2>4, FlushFacts, FlushFailureType
  <2>6. Newest(ram', pushed')
    BY <1>3, <2>1, <2>3, NewestTail DEF r
  <2>7. Len(ram') <= total'
    BY <1>1, <1>2, <2>1, <2>3
  <2> QED
    BY <1>1, <1>3, <2>1, <2>3, <2>5, <2>6, <2>7 DEF RamInv
<1> QED
  BY <1>1, <1>4, <1>5

(* An open begins with no line in RAM.                                     *)
LEMMA ReopenRamInv ==
  ASSUME RamInv, Reopen
  PROVE  RamInv'
<1> DEFINE d == Open(disk)
<1>1. /\ disk' = IF 0 < d.count /\ d.count <= RebuildCap THEN AfterRead(d) ELSE d
      /\ total' = d.count /\ ram' = << >>
      /\ pushed' = SubSeq(pushed, 1, Lesser(Len(pushed), d.count))
  BY DEF Reopen
<1>2. DiskType(disk) /\ pushed \in Seq(Lines) /\ Len(pushed) \in Nat
  BY DEF RamInv
<1>3. DiskType(d) /\ d.count \in Nat
  BY <1>2, OpenKeeps, OpenParts
<1> HIDE DEF d
<1>4. DiskType(disk')
  BY <1>1, <1>3, FlushFacts
<1>5. pushed' \in Seq(Lines) /\ Len(pushed') \in Nat
  <2>1. Lesser(Len(pushed), d.count) \in 0..Len(pushed)
    BY <1>2, <1>3 DEF Lesser
  <2> QED
    BY <1>1, <1>2, <2>1
<1>6. ram' \in Seq(Lines) /\ Len(ram') = 0
  BY <1>1
<1>7. Newest(ram', pushed') /\ Len(ram') <= total'
  BY <1>1, <1>3, <1>5, <1>6 DEF Newest
<1> QED
  BY <1>1, <1>3, <1>4, <1>5, <1>6, <1>7 DEF RamInv

(* Every step, under every fault.                                          *)
LEMMA StepRamInv ==
  ASSUME RamInv, [Next]_vars
  PROVE  RamInv'
<1>1. DiskType(disk) /\ ram \in Seq(Lines) /\ pushed \in Seq(Lines)
  BY DEF RamInv
<1>2. CASE \E v \in Lines : PushLine(v)
  BY <1>2, PushRamInv
<1>3. CASE ReadDisk \/ Checkpoint
  <2>1. /\ UNCHANGED <<ram, total, up, pushed>>
        /\ disk' \in {AfterRead(disk), Sync(disk)} \/ disk' \in FlushFailures(disk)
    BY <1>3 DEF ReadDisk, Checkpoint
  <2>2. DiskType(disk')
    BY <1>1, <2>1, FlushFacts, FlushFailureType
  <2> QED
    BY <2>1, <2>2 DEF RamInv
<1>4. CASE Shutdown \/ Kill \/ \E v \in Lines : KilledPush(v)
  <2>1. /\ UNCHANGED <<ram, total>> /\ up' = FALSE
    BY <1>4 DEF Shutdown, Kill, KilledPush, KillInPush, KillInFlush, KilledInPush
  <2>2. pushed' \in Seq(Lines)
    <3>1. pushed' = pushed \/ \E v \in Lines : pushed' = Append(pushed, v)
      BY <1>4 DEF Shutdown, Kill, KilledPush, KillInPush, KillInFlush, KilledInPush
    <3> QED
      BY <1>1, <3>1
  <2>3. PICK d : DiskType(d) /\ disk' = Killed(d)
    <3>1. CASE Shutdown
      <4>1. \/ disk' = Killed(Sync(disk))
            \/ \E d \in FlushFailures(disk) \cup {[disk EXCEPT !.index = FlushStream(@)]} :
                 disk' = Killed(d)
        BY <3>1 DEF Shutdown
      <4>2. DiskType(Sync(disk))
        BY <1>1, FlushFacts
      <4> QED
        BY <1>1, <4>1, <4>2, FlushFailureType
    <3>2. CASE Kill
      <4>1. disk' = Killed(disk) \/ disk' = Killed(HalfFlushed(disk))
        BY <3>2 DEF Kill
      <4> QED
        BY <1>1, <4>1, HalfFlushedFacts
    <3>3. CASE \E v \in Lines : KilledPush(v)
      <4>1. PICK v \in Lines : KilledPush(v)
        BY <3>3
      <4> DEFINE w == Head(Append(ram, v))
      <4>2. \/ \E k \in 1..4 : disk' = Killed(AppendWrites(disk, w, k))
            \/ disk' = Killed(HalfFlushed(AppendLine(disk, w)))
        BY <4>1 DEF KilledPush, KillInPush, KillInFlush
      <4>3. w \in Lines
        BY <1>1, OldestFacts
      <4> HIDE DEF w
      <4>4. \A k \in 1..4 : DiskType(AppendWrites(disk, w, k))
        <5>1. 1..4 \subseteq 0..4
          OBVIOUS
        <5> QED
          BY <1>1, <4>3, <5>1, AppendWritesFacts
      <4>5. DiskType(HalfFlushed(AppendLine(disk, w)))
        BY <1>1, <4>3, AppendLineFacts, HalfFlushedFacts
      <4> QED
        BY <4>2, <4>4, <4>5
    <3> QED
      BY <1>4, <3>1, <3>2, <3>3
  <2>4. DiskType(disk')
    BY <2>3, KilledParts
  <2> QED
    BY <2>1, <2>2, <2>4 DEF RamInv
<1>5. CASE Reopen
  BY <1>5, ReopenRamInv
<1>6. CASE UNCHANGED vars
  BY <1>6 DEF vars, RamInv
<1> QED
  BY <1>2, <1>3, <1>4, <1>5, <1>6 DEF Next, KilledPush

(* Whatever is written, fails or is killed, and whatever the disk holds:   *)
(* get_line serves the newest lines from RAM, each at its own id, because  *)
(* disk_line_count reckons with total_lines and the RAM only               *)
(* (mod.rs:139-161).                                                       *)
THEOREM NewestLinesAreReadable ==
  Spec => []NewestLinesReadable
<1>1. Init => RamInv
  BY InitInv DEF Init, Inv, TypeOK, RamInv
<1>2. RamInv /\ [Next]_vars => RamInv'
  BY StepRamInv
<1>3. ASSUME RamInv
      PROVE  NewestLinesReadable
  <2> SUFFICES ASSUME up, NEW i \in 0..Len(ram) - 1
               PROVE  GetLine(total - 1 - i) = pushed[Len(pushed) - i]
    BY DEF NewestLinesReadable
  <2> DEFINE id == total - 1 - i
  <2>1. /\ Len(ram) \in Nat /\ total \in Nat /\ Len(ram) <= total
        /\ ram[Len(ram) - i] = pushed[Len(pushed) - i]
    BY <1>3 DEF RamInv, Newest
  <2>2. ~(id >= total) /\ id >= DiskLineCount /\ id - DiskLineCount + 1 = Len(ram) - i
    BY <2>1 DEF DiskLineCount
  <2> HIDE DEF id
  <2>3. GetLine(id) = ram[Len(ram) - i]
    BY <2>2 DEF GetLine
  <2> QED
    BY <2>1, <2>3 DEF id
<1> QED
  BY <1>1, <1>2, <1>3, PTL DEF Spec

-----------------------------------------------------------------------------
(* While nothing fails, a session is a scrollback.  The first n ids of the *)
(* files hold the first n lines, and the cache file ends with the last.    *)
Kept(d, p, n) ==
  /\ n <= Len(p) /\ Len(d.index.data) = 3 * n
  /\ \A id \in 0..n - 1 : Stored(d, id, p[id + 1])
  /\ Len(d.cache.data) = IF n = 0 THEN 0 ELSE EndOf(Entry(d.index.data, n - 1))

(* The handle knows where the files end, and what it maps it maps whole.   *)
Exact(d) ==
  /\ d.off = Len(d.cache.data)
  /\ d.mmap = NoMmap \/ d.mmap = Len(d.cache.data)

CleanUp ==
  /\ Kept(disk, pushed, disk.count) /\ Exact(disk)
  /\ Len(pushed) = total
  /\ \A i \in 1..Len(ram) : ram[i] = pushed[disk.count + i]

CleanInv ==
  /\ Inv
  /\ up => CleanUp
  /\ ~up => Kept(disk, pushed, firm)

(* Two files with the same words keep the same lines, and two histories    *)
(* with the same first n lines are kept by the same files.                 *)
LEMMA KeptSame ==
  ASSUME NEW d, NEW e, NEW p, NEW n, Kept(d, p, n),
         e.cache.data = d.cache.data, e.index.data = d.index.data
  PROVE  Kept(e, p, n)
BY DEF Kept, Stored

(* Files that keep the first n lines of a history keep those of any other  *)
(* with the same first n.                                                  *)
LEMMA KeptPrefix ==
  ASSUME NEW d, NEW p, NEW q, NEW n \in Nat, Kept(d, p, n),
         n <= Len(q), \A i \in 1..n : q[i] = p[i]
  PROVE  Kept(d, q, n)
<1>1. \A id \in 0..n - 1 : id + 1 \in 1..n
  OBVIOUS
<1> QED
  BY <1>1 DEF Kept

(* A process that ends with empty buffers loses nothing.                   *)
LEMMA KeptKilled ==
  ASSUME NEW d, DiskType(d), NEW p \in Seq(Lines), NEW n \in Nat, Kept(d, p, n),
         d.cache.os = Len(d.cache.data), d.index.os = Len(d.index.data)
  PROVE  Kept(Killed(d), p, n)
<1> DEFINE e == Killed(d)
           x == d.index.data
           c == d.cache.data
<1>1. /\ DiskType(e) /\ Len(e.cache.data) = Len(c) /\ Len(e.index.data) = Len(x)
      /\ \A i \in 1..Len(c) : e.cache.data[i] = c[i]
      /\ \A i \in 1..Len(x) : e.index.data[i] = x[i]
  BY KilledParts
<1> HIDE DEF e
<1>2. /\ c \in Seq(CacheWord) /\ e.cache.data \in Seq(CacheWord)
      /\ x \in Seq(Nat) /\ e.index.data \in Seq(Nat)
  BY <1>1, DiskData
<1>3. e.cache.data = c
  BY <1>1, <1>2, SeqEqual, ZenonT(60)
<1>4. e.index.data = x
  BY <1>1, <1>2, SeqEqual
<1> QED
  BY <1>3, <1>4, KeptSame DEF e

(* An open of files without left-over bytes counts every line and knows    *)
(* where they end.                                                         *)
LEMMA KeptOpen ==
  ASSUME NEW d, Sound(d, firm), Settled(d), NEW p, Kept(d, p, firm)
  PROVE  Kept(Open(d), p, firm) /\ Exact(Open(d)) /\ Open(d).count = firm
<1> DEFINE e == Open(d)
<1>1. ~IndexAhead(d) /\ e.count = firm
  BY OpenFacts
<1>2. DiskType(d) /\ firm \in Nat
  BY DEF Sound, Held
<1>3. /\ e.mmap = NoMmap
      /\ e.index = IF e.count = 0 THEN d.index ELSE KeepRecords(d.index, e.count)
      /\ e.off = IF e.count = 0 THEN 0 ELSE EndOf(Entry(d.index.data, e.count - 1))
      /\ e.cache = d.cache
  BY <1>1, <1>2, OpenParts
<1>4. /\ Len(d.index.data) = 3 * firm
      /\ Len(d.cache.data) = IF firm = 0 THEN 0 ELSE EndOf(Entry(d.index.data, firm - 1))
  BY DEF Kept
<1>5. KeepRecords(d.index, firm) = d.index
  BY <1>4 DEF KeepRecords
<1> HIDE DEF e
<1>6. e.index = d.index
  BY <1>1, <1>3, <1>5
<1>7. Kept(e, p, firm)
  BY <1>3, <1>6, KeptSame
<1>8. Exact(e)
  BY <1>1, <1>3, <1>4 DEF Exact
<1> QED
  BY <1>1, <1>7, <1>8 DEF e

(* A flush, a sync or a read keeps the lines and hands them to the system. *)
LEMMA FlushKept ==
  ASSUME NEW d, DiskType(d), NEW p, NEW n, Kept(d, p, n), Exact(d),
         NEW e \in {Flush(d), Sync(d), AfterRead(d)}
  PROVE  /\ Kept(e, p, n) /\ Exact(e) /\ e.count = d.count
         /\ e.cache.os = Len(e.cache.data) /\ e.index.os = Len(e.index.data)
<1>1. /\ e.off = d.off /\ e.count = d.count
      /\ e.cache.data = d.cache.data /\ e.cache.os = Len(d.cache.data)
      /\ e.index.data = d.index.data /\ e.index.os = Len(d.index.data)
  BY FlushFacts
<1>2. e.mmap = d.mmap \/ e.mmap = Len(d.cache.data)
  <2>1. CASE e \in {Flush(d), Sync(d)}
    BY <2>1, DiskParts DEF Flush, Sync
  <2>2. CASE e = AfterRead(d)
    <3>1. Flush(d).cache.os = Len(d.cache.data)
      BY FlushFacts
    <3>2. e.mmap = IF d.mmap = NoMmap THEN Flush(d).cache.os ELSE d.mmap
      BY <2>2, DiskParts DEF AfterRead
    <3> QED
      BY <3>1, <3>2
  <2> QED
    BY <2>1, <2>2
<1>3. Exact(e)
  BY <1>1, <1>2 DEF Exact
<1>4. Kept(e, p, n)
  BY <1>1, KeptSame
<1> QED
  BY <1>1, <1>3, <1>4

(* An append of the next line keeps that line too.                         *)
LEMMA AppendKept ==
  ASSUME NEW d, DiskType(d), NEW p \in Seq(Lines), Kept(d, p, d.count), Exact(d),
         d.count + 1 <= Len(p)
  PROVE  LET e == AppendLine(d, p[d.count + 1])
         IN Kept(e, p, d.count + 1) /\ Exact(e) /\ e.count = d.count + 1 /\ DiskType(e)
<1> DEFINE n == d.count
           v == p[n + 1]
           a == AppendWrites(d, v, 4)
           e == AppendLine(d, v)
           x == d.index.data
           y == e.index.data
           c == Len(d.cache.data)
<1>1. /\ n \in Nat /\ d.off \in Nat /\ Len(x) \in Nat /\ c \in Nat /\ Len(p) \in Nat
      /\ d.off = c /\ Len(x) = 3 * n
  BY DiskFields, DiskData DEF Exact, Kept
<1>2. v \in Lines
  <2>1. n + 1 \in 1..Len(p)
    <3>1. n \in Nat /\ Len(p) \in Nat /\ n + 1 <= Len(p)
      BY <1>1
    <3> HIDE DEF n
    <3> QED
      BY <3>1
  <2> QED
    BY <2>1
<1> HIDE DEF v
<1>3. Size[v] \in Nat
  BY <1>2, SizeAssumption
<1>4. /\ Len(a.cache.data) = c + 1 + Size[v] /\ Len(a.index.data) = Len(x) + 3
      /\ StartsWith(a.index.data, x) /\ StartsWith(a.cache.data, d.cache.data)
  <2>1. 4 \in 0..4
    OBVIOUS
  <2>2. /\ Len(a.cache.data) = c + 1 + Size[v] /\ Len(a.index.data) = Len(x) + 3
        /\ StartsWith(a.index.data, x)
    BY <1>2, <2>1, AppendWritesFacts
  <2> QED
    BY <1>2, <2>1, <2>2, AppendContent
<1>5. /\ DiskType(e) /\ e.cache = a.cache /\ e.index = a.index
      /\ e.off = d.off + 1 + Size[v] /\ e.count = n + 1 /\ e.mmap = NoMmap
  BY <1>2, AppendLineFacts
<1>6. Returns(e, n, v) /\ Entry(y, n) = [off |-> d.off, len |-> Size[v]]
  BY <1>1, <1>2, AppendShows
<1> HIDE DEF e, a
<1>7. Stored(e, n, v)
  <2>1. Len(e.cache.data) \in Nat
    BY <1>5, DiskData
  <2>2. e.mmap <= Len(e.cache.data)
    BY <1>5, <2>1 DEF NoMmap
  <2> QED
    BY <1>1, <1>2, <1>5, <1>6, <2>2, ReturnsFacts
<1>8. Len(y) = 3 * (n + 1) /\ Len(e.cache.data) = EndOf(Entry(y, n)) /\ e.off = Len(e.cache.data)
  BY <1>1, <1>3, <1>4, <1>5, <1>6 DEF EndOf
<1>9. ASSUME NEW id \in 0..n - 1
      PROVE  Stored(e, id, p[id + 1])
  <2> DEFINE w == p[id + 1]
             k == Len(x)
  <2>1. id \in Nat /\ w \in Lines
    <3>1. id + 1 \in 1..Len(p)
      BY <1>1
    <3> QED
      BY <3>1
  <2>2. Stored(d, id, w)
    BY DEF Kept
  <2>3. 3 * id + 3 <= k /\ EndOf(Entry(x, id)) <= c
    BY <2>2 DEF Stored
  <2>4. /\ k <= Len(y) /\ \A i \in 1..k : y[i] = x[i]
        /\ c <= Len(e.cache.data) /\ \A i \in 1..c : e.cache.data[i] = d.cache.data[i]
    BY <1>4, <1>5 DEF StartsWith
  <2>5. k \in Nat /\ k <= Len(d.index.data) /\ c <= Len(d.cache.data) /\ c \in Nat
    BY <1>1
  <2> HIDE DEF w, k, c
  <2>6. Stored(e, id, w)
    BY <1>5, <2>1, <2>2, <2>3, <2>4, <2>5, StoredStays
  <2> QED
    BY <2>6 DEF w
<1>10. \A id \in 0..n : Stored(e, id, p[id + 1])
  <2> SUFFICES ASSUME NEW id \in 0..n
               PROVE  Stored(e, id, p[id + 1])
    OBVIOUS
  <2>1. id \in 0..n - 1 \/ id = n
    BY <1>1
  <2> QED
    BY <1>7, <1>9, <2>1 DEF v
<1>11. Kept(e, p, n + 1)
  <2>1. PICK k : k = n + 1
    OBVIOUS
  <2>2. k # 0 /\ k - 1 = n
    BY <1>1, <2>1
  <2>3. /\ k <= Len(p) /\ Len(y) = 3 * k
        /\ Len(e.cache.data) = EndOf(Entry(y, k - 1))
    BY <1>8, <2>1, <2>2
  <2>4. \A id \in 0..k - 1 : Stored(e, id, p[id + 1])
    <3>1. 0..k - 1 = 0..n
      BY <2>2
    <3> QED
      BY <1>10, <3>1
  <2>5. Kept(e, p, k)
    BY <2>2, <2>3, <2>4 DEF Kept
  <2> QED
    BY <2>1, <2>5
<1> QED
  BY <1>5, <1>8, <1>11 DEF Exact, e, v

(* RAM goes on where the disk ends, also after the oldest line moved there.*)
Follows(r, p, c) == Len(p) = c + Len(r) /\ \A i \in 1..Len(r) : r[i] = p[c + i]

FollowsOn(r, p, c, v) ==
  LET s == Append(r, v)
      q == Append(p, v)
  IN /\ q \in Seq(Lines) /\ Len(q) = Len(p) + 1 /\ c + 1 <= Len(q)
     /\ \A i \in 1..c : q[i] = p[i]
     /\ \A i \in 1..Len(s) : s[i] = q[c + i]
     /\ Head(s) = q[c + 1]
     /\ \A i \in 1..Len(Tail(s)) : Tail(s)[i] = q[c + 1 + i]

(* So it does with one more line.                                          *)
LEMMA RamFollows ==
  ASSUME NEW r \in Seq(Lines), NEW p \in Seq(Lines), NEW c \in Nat,
         Follows(r, p, c), NEW v \in Lines
  PROVE  FollowsOn(r, p, c, v)
<1> DEFINE s == Append(r, v)
           q == Append(p, v)
           t == Tail(s)
<1>0. Len(p) = c + Len(r) /\ \A i \in 1..Len(r) : r[i] = p[c + i]
  BY DEF Follows
<1>1. /\ Len(r) \in Nat /\ Len(p) \in Nat /\ q \in Seq(Lines) /\ s \in Seq(Lines)
      /\ Len(s) = Len(r) + 1 /\ Len(q) = Len(p) + 1
      /\ s[Len(r) + 1] = v /\ \A i \in 1..Len(r) : s[i] = r[i]
      /\ q[Len(p) + 1] = v /\ \A i \in 1..Len(p) : q[i] = p[i]
  BY AppendProperties
<1>2. /\ s # << >> /\ Head(s) = s[1]
      /\ Len(t) = Len(s) - 1 /\ \A i \in 1..Len(t) : t[i] = s[i + 1]
  BY <1>1
<1> HIDE DEF s, q, t
<1>3. ASSUME NEW i \in 1..Len(s)
      PROVE  s[i] = q[c + i]
  <2>1. CASE i = Len(r) + 1
    <3>1. c + i = Len(p) + 1
      BY <1>0, <1>1, <2>1
    <3> QED
      BY <1>1, <2>1, <3>1
  <2>2. CASE i # Len(r) + 1
    <3>1. i \in 1..Len(r) /\ c + i \in 1..Len(p)
      BY <1>0, <1>1, <2>2
    <3> QED
      BY <1>0, <1>1, <3>1
  <2> QED
    BY <2>1, <2>2
<1>4. Head(s) = q[c + 1]
  <2>1. 1 \in 1..Len(s)
    BY <1>1
  <2> QED
    BY <1>2, <1>3, <2>1
<1>5. ASSUME NEW i \in 1..Len(t)
      PROVE  t[i] = q[c + 1 + i]
  <2>1. i + 1 \in 1..Len(s) /\ c + (i + 1) = c + 1 + i
    BY <1>1, <1>2
  <2> QED
    BY <1>2, <1>3, <2>1
<1>6. \A i \in 1..c : q[i] = p[i]
  <2>1. \A i \in 1..c : i \in 1..Len(p)
    BY <1>0, <1>1
  <2> QED
    BY <1>1, <2>1
<1>7. c + 1 <= Len(q)
  BY <1>0, <1>1
<1> QED
  BY <1>1, <1>3, <1>4, <1>5, <1>6, <1>7 DEF FollowsOn, s, q, t

(* The parts of CleanInv, with their types.                                *)
LEMMA CleanParts ==
  ASSUME CleanInv
  PROVE  /\ DiskType(disk) /\ disk.count \in Nat /\ firm \in Nat
         /\ ram \in Seq(Lines) /\ Len(ram) \in Nat /\ pushed \in Seq(Lines)
         /\ Len(pushed) \in Nat /\ total \in 0..MaxLines /\ total \in Nat
         /\ up => /\ Kept(disk, pushed, disk.count) /\ Exact(disk)
                  /\ Len(pushed) = total /\ disk.count + Len(ram) = total
                  /\ \A i \in 1..Len(ram) : ram[i] = pushed[disk.count + i]
BY DiskFields, BoundsAssumption DEF CleanInv, CleanUp, Inv, UpInv, TypeOK

(* The first state, with empty files.                                      *)
LEMMA InitClean ==
  Init => CleanInv
<1> SUFFICES ASSUME Init
             PROVE  CleanInv
  OBVIOUS
<1> DEFINE z == EmptyStream
<1>1. Len(z.data) = 0
  BY DEF EmptyStream
<1>2. disk = Disk(z, z, 0, 0, NoMmap)
  BY DEF Init, NewCache, Closed, Opened
<1> HIDE DEF z
<1>3. disk.cache = z /\ disk.index = z
  BY <1>2, DiskParts
<1>4. firm = 0 /\ pushed = << >> /\ up = FALSE
  BY DEF Init
<1>5. Len(pushed) = 0
  BY <1>4
<1>6. Kept(disk, pushed, 0)
  BY <1>1, <1>3, <1>5 DEF Kept
<1> QED
  BY <1>4, <1>6, InitInv DEF CleanInv

(* push_line, when nothing fails.                                          *)
LEMMA PushClean ==
  ASSUME CleanInv, Faults = {}, NEW v \in Lines, PushLine(v)
  PROVE  CleanInv'
<1> DEFINE c == disk.count
           s == Append(ram, v)
           q == Append(pushed, v)
           w == q[c + 1]
           d == AppendLine(disk, w)
<1>1. /\ up /\ up' = up /\ total' = total + 1 /\ pushed' = q
      /\ Keep(v) \/ Evict(v)
  BY DEF PushLine
<1>2. /\ DiskType(disk) /\ c \in Nat /\ ram \in Seq(Lines) /\ pushed \in Seq(Lines)
      /\ Kept(disk, pushed, c) /\ Exact(disk)
      /\ Len(pushed) = total /\ c + Len(ram) = total
      /\ \A i \in 1..Len(ram) : ram[i] = pushed[c + i]
  BY <1>1, CleanParts
<1>3. Inv'
  BY PushLineInv DEF CleanInv
<1>4. /\ q \in Seq(Lines) /\ Len(q) = total + 1 /\ c + 1 <= Len(q)
      /\ \A i \in 1..c : q[i] = pushed[i]
      /\ \A i \in 1..Len(s) : s[i] = q[c + i]
      /\ Head(s) = q[c + 1]
      /\ \A i \in 1..Len(Tail(s)) : Tail(s)[i] = q[c + 1 + i]
  <2>1. Follows(ram, pushed, c)
    BY <1>2 DEF Follows
  <2>2. FollowsOn(ram, pushed, c, v)
    BY <1>2, <2>1, RamFollows
  <2> QED
    BY <1>2, <2>2 DEF FollowsOn
<1> HIDE DEF c, s, q
<1>5. Kept(disk, q, c)
  <2>1. Len(q) \in Nat /\ c <= Len(q)
    BY <1>2, <1>4
  <2> QED
    BY <1>2, <1>4, <2>1, KeptPrefix
<1>6. CASE Keep(v)
  <2>1. ram' = s /\ disk' = disk
    BY <1>6 DEF Keep, s
  <2> QED
    BY <1>1, <1>2, <1>3, <1>4, <1>5, <2>1 DEF CleanInv, CleanUp, c
<1>7. CASE Evict(v)
  <2>1. Kept(d, q, c + 1) /\ Exact(d) /\ d.count = c + 1 /\ DiskType(d)
    BY <1>2, <1>4, <1>5, AppendKept DEF c
  <2>2. Spilled(w) = {d}
    BY DEF Spilled
  <2>3. w = Head(s)
    BY <1>4
  <2> HIDE DEF w, d
  <2>4. ram' = Tail(s) /\ (disk' = d \/ disk' = Flush(d))
    BY <1>7, <2>2, <2>3 DEF Evict, s
  <2>5. Kept(disk', q, c + 1) /\ Exact(disk') /\ disk'.count = c + 1
    BY <2>1, <2>4, FlushKept
  <2>6. CleanUp'
    BY <1>1, <1>4, <2>4, <2>5 DEF CleanUp
  <2> QED
    BY <1>1, <1>3, <2>6 DEF CleanInv
<1> QED
  BY <1>1, <1>6, <1>7

(* A shutdown, after which the files keep the lines that are firm.         *)
LEMMA ShutdownClean ==
  ASSUME CleanInv, Faults = {}, Shutdown
  PROVE  CleanInv'
<1>1. /\ up /\ up' = FALSE /\ disk' = Killed(Sync(disk)) /\ firm' = disk.count
      /\ pushed' = pushed
  BY DEF Shutdown
<1>2. Inv'
  BY ShutdownInv DEF CleanInv
<1>3. /\ DiskType(disk) /\ disk.count \in Nat /\ pushed \in Seq(Lines)
      /\ Kept(disk, pushed, disk.count) /\ Exact(disk)
  BY <1>1, CleanParts
<1>4. /\ Kept(Sync(disk), pushed, disk.count) /\ DiskType(Sync(disk))
      /\ Sync(disk).cache.os = Len(Sync(disk).cache.data)
      /\ Sync(disk).index.os = Len(Sync(disk).index.data)
  BY <1>3, FlushKept, FlushFacts
<1>5. Kept(Killed(Sync(disk)), pushed, disk.count)
  BY <1>3, <1>4, KeptKilled
<1> QED
  BY <1>1, <1>2, <1>5 DEF CleanInv

(* An open, which finds the same lines.                                    *)
LEMMA ReopenClean ==
  ASSUME CleanInv, Reopen
  PROVE  CleanInv'
<1> DEFINE d == Open(disk)
<1>1. /\ ~up /\ up' = TRUE /\ ram' = << >> /\ total' = d.count
      /\ disk' = IF 0 < d.count /\ d.count <= RebuildCap THEN AfterRead(d) ELSE d
      /\ pushed' = SubSeq(pushed, 1, Lesser(Len(pushed), d.count))
  BY DEF Reopen
<1>2. Inv'
  BY ReopenInv DEF CleanInv
<1>3. /\ Sound(disk, firm) /\ Settled(disk) /\ Kept(disk, pushed, firm)
      /\ firm \in Nat /\ pushed \in Seq(Lines) /\ Len(pushed) \in Nat
  BY <1>1, CleanParts DEF CleanInv, Inv
<1>4. Kept(d, pushed, firm) /\ Exact(d) /\ d.count = firm /\ DiskType(d)
  BY <1>3, KeptOpen, OpenFacts DEF Sound, Held
<1> HIDE DEF d
<1>5. Kept(disk', pushed, firm) /\ Exact(disk') /\ disk'.count = firm
  BY <1>1, <1>4, FlushKept
<1>6. firm <= Len(pushed)
  BY <1>3 DEF Kept
<1>7. Lesser(Len(pushed), firm) = firm
  BY <1>3, <1>6 DEF Lesser
<1>8. /\ Len(pushed') = firm /\ \A i \in 1..firm : pushed'[i] = pushed[i]
  <2>1. pushed' = SubSeq(pushed, 1, firm)
    BY <1>1, <1>4, <1>7
  <2> QED
    BY <1>3, <1>6, <2>1
<1>9. Kept(disk', pushed', firm)
  BY <1>3, <1>5, <1>8, KeptPrefix
<1>10. CleanUp'
  <2>1. Len(ram') = 0
    BY <1>1
  <2>2. \A i \in 1..Len(ram') : ram'[i] = pushed'[disk'.count + i]
    BY <2>1
  <2>3. Len(pushed') = total'
    BY <1>1, <1>4, <1>8
  <2> QED
    BY <1>5, <1>9, <2>2, <2>3 DEF CleanUp
<1> QED
  BY <1>1, <1>2, <1>10 DEF CleanInv

(* Every step, without faults.                                             *)
LEMMA StepClean ==
  ASSUME CleanInv, Faults = {}, [Next]_vars
  PROVE  CleanInv'
<1>1. CASE \E v \in Lines : PushLine(v)
  BY <1>1, PushClean
<1>2. CASE ReadDisk \/ Checkpoint
  <2>1. /\ up /\ up' = up /\ pushed' = pushed /\ ram' = ram /\ total' = total
        /\ disk' \in {Flush(disk), Sync(disk), AfterRead(disk)}
    BY <1>2 DEF ReadDisk, Checkpoint
  <2>2. Inv'
    BY StepInv DEF CleanInv
  <2>3. Kept(disk', pushed, disk.count) /\ Exact(disk') /\ disk'.count = disk.count
    BY <2>1, CleanParts, FlushKept
  <2> QED
    BY <2>1, <2>2, <2>3, CleanParts DEF CleanInv, CleanUp
<1>3. CASE Shutdown
  BY <1>3, ShutdownClean
<1>4. CASE Kill \/ \E v \in Lines : KilledPush(v)
  BY <1>4 DEF Kill, KilledPush, KillInPush, KillInFlush, KilledInPush
<1>5. CASE Reopen
  BY <1>5, ReopenClean
<1>6. CASE UNCHANGED vars
  BY <1>6, StepInv DEF vars, CleanInv, CleanUp
<1> QED
  BY <1>1, <1>2, <1>3, <1>4, <1>5, <1>6 DEF Next, KilledPush

(* No two lines have the same encoding.                                    *)
LEMMA ContentInjective ==
  ASSUME NEW v \in Lines, NEW w \in Lines, Content(v) = Content(w)
  PROVE  v = w
<1>1. Size[v] \in Nat /\ Size[w] \in Nat /\ Size[v] > 0 /\ Size[w] > 0
  BY SizeAssumption, EncodedAssumption
<1>2. 1 \in 1..Size[v] /\ 1 \in 1..Size[w]
  BY <1>1
<1>3. Content(v)[1] = [line |-> v, at |-> 1] /\ Content(w)[1] = [line |-> w, at |-> 1]
  BY <1>2 DEF Content
<1>4. Content(v)[1].line = v /\ Content(w)[1].line = w
  BY <1>3
<1> QED
  BY <1>4

(* Every line that is kept is read.                                        *)
LEMMA KeptReturns ==
  ASSUME NEW d, DiskType(d), NEW p \in Seq(Lines), Kept(d, p, d.count), Exact(d),
         NEW id \in 0..d.count - 1
  PROVE  p[id + 1] \in Lines /\ Returns(d, id, p[id + 1]) /\ ReadLine(d, id).ok
<1> DEFINE v == p[id + 1]
<1>1. d.count \in Nat /\ Len(d.cache.data) \in Nat
  BY DiskFields, DiskData
<1>2. id \in Nat /\ id < d.count /\ v \in Lines
  <2>1. d.count <= Len(p) /\ Len(p) \in Nat
    BY DEF Kept
  <2>2. id + 1 \in 1..Len(p)
    BY <1>1, <2>1
  <2> QED
    BY <1>1, <2>2
<1>3. Stored(d, id, v)
  BY DEF Kept
<1> HIDE DEF v
<1>4. EndOf(Entry(d.index.data, id)) <= Len(d.cache.data)
  BY <1>3 DEF Stored
<1>5. d.mmap <= Len(d.cache.data) /\ Visible(d) = Len(d.cache.data)
  BY <1>1 DEF Exact, Visible, NoMmap
<1>6. Returns(d, id, v)
  BY <1>2, <1>3, <1>4, <1>5, ReturnsFacts
<1>7. ReadLine(d, id).ok
  BY <1>6 DEF Returns
<1> QED
  BY <1>2, <1>6, <1>7 DEF v

(* get_line returns every line there is, at its id.                        *)
LEMMA GetLineClean ==
  ASSUME CleanInv, up, NEW id \in 0..total - 1
  PROVE  pushed[id + 1] \in Lines /\ GetLine(id) = pushed[id + 1]
<1> DEFINE c == disk.count
           v == pushed[id + 1]
<1>1. /\ DiskType(disk) /\ c \in Nat /\ ram \in Seq(Lines) /\ Len(ram) \in Nat
      /\ pushed \in Seq(Lines) /\ total \in Nat
      /\ Kept(disk, pushed, c) /\ Exact(disk)
      /\ Len(pushed) = total /\ c + Len(ram) = total
      /\ \A i \in 1..Len(ram) : ram[i] = pushed[c + i]
  BY CleanParts
<1>2. ~(id >= total) /\ DiskLineCount = c /\ v \in Lines
  <2>1. id + 1 \in 1..Len(pushed)
    BY <1>1
  <2> QED
    BY <1>1, <2>1 DEF DiskLineCount
<1>3. CASE id >= c
  <2>1. GetLine(id) = ram[id - c + 1]
    BY <1>2, <1>3 DEF GetLine
  <2>2. id - c + 1 \in 1..Len(ram) /\ c + (id - c + 1) = id + 1
    BY <1>1, <1>3
  <2> QED
    BY <1>1, <1>2, <2>1, <2>2
<1>4. CASE ~(id >= c)
  <2>1. id \in 0..c - 1
    BY <1>1, <1>4
  <2>2. Returns(disk, id, v)
    BY <1>1, <2>1, KeptReturns
  <2> DEFINE r == ReadLine(disk, id)
  <2>3. Decodes(r, v)
    BY <2>2 DEF Returns, Decodes
  <2> HIDE DEF c, v, r
  <2>4. \A w \in Lines : Decodes(r, w) => w = v
    <3> SUFFICES ASSUME NEW w \in Lines, Decodes(r, w)
                 PROVE  w = v
      OBVIOUS
    <3>1. [ok |-> TRUE, bytes |-> Content(v)] = [ok |-> TRUE, bytes |-> Content(w)]
      BY <2>3 DEF Decodes
    <3>2. Content(v) = Content(w)
      BY <3>1, SameBytes
    <3> QED
      BY <1>2, <3>2, ContentInjective
  <2>5. (CHOOSE w \in Lines : Decodes(r, w)) = v
    BY <1>2, <2>3, <2>4
  <2>6. GetLine(id) = CHOOSE w \in Lines : Decodes(r, w)
    BY <1>2, <1>4, <2>3 DEF GetLine, r
  <2> QED
    BY <1>2, <2>5, <2>6 DEF v
<1> QED
  BY <1>3, <1>4

(* So a reader sees the history itself.                                    *)
LEMMA ShownClean ==
  ASSUME CleanInv
  PROVE  Shown = pushed
<1>1. CASE ~up
  BY <1>1 DEF Shown
<1>2. CASE up
  <2> DEFINE s == [i \in 1..total |-> GetLine(i - 1)]
  <2>1. pushed \in Seq(Lines) /\ Len(pushed) = total /\ total \in Nat
    BY <1>2, CleanParts
  <2>2. \A i \in 1..total : GetLine(i - 1) \in Lines /\ GetLine(i - 1) = pushed[i]
    <3> SUFFICES ASSUME NEW i \in 1..total
                 PROVE  GetLine(i - 1) \in Lines /\ GetLine(i - 1) = pushed[i]
      OBVIOUS
    <3>1. i - 1 \in 0..total - 1 /\ i - 1 + 1 = i
      BY <2>1
    <3> QED
      BY <1>2, <3>1, GetLineClean
  <2>5. \A i \in 1..total : s[i] = pushed[i] /\ pushed[i] \in Lines
    BY <2>2
  <2>6. DOMAIN s = 1..total /\ s = [i \in 1..total |-> s[i]]
    OBVIOUS
  <2>3. s \in Seq(Lines) /\ Len(s) = total /\ \A i \in 1..total : s[i] = pushed[i]
    <3> HIDE DEF s
    <3>1. s \in [1..total -> Lines]
      BY <2>5, <2>6
    <3> QED
      BY <2>1, <2>5, <3>1
  <2> HIDE DEF s
  <2>4. s = pushed
    BY <2>1, <2>3, SeqEqual
  <2> QED
    BY <1>2, <2>4 DEF Shown, s
<1> QED
  BY <1>1, <1>2

(* The part of a range that is on disk.                                    *)
LEMMA DiskRangeClean ==
  ASSUME CleanInv, up, NEW s \in Nat, NEW e \in Nat, s < disk.count, e <= disk.count
  PROVE  DiskRange(s, e) = [i \in 1..e - s |-> pushed[s + i]]
<1> DEFINE c == disk.count
<1>1. /\ DiskType(disk) /\ c \in Nat /\ Len(ram) \in Nat /\ total \in Nat
      /\ pushed \in Seq(Lines) /\ Kept(disk, pushed, c) /\ Exact(disk)
      /\ c + Len(ram) = total
  BY CleanParts
<1>2. Lesser(e, c) = e
  BY <1>1 DEF Lesser
<1>3. \A id \in s..e - 1 : ReadLine(disk, id).ok
  <2>1. \A id \in s..e - 1 : id \in 0..c - 1
    BY <1>1
  <2> HIDE DEF c
  <2> QED
    BY <1>1, <2>1, KeptReturns DEF c
<1>4. DiskRange(s, e) = [i \in 1..e - s |-> GetLine(s + i - 1)]
  BY <1>2, <1>3 DEF DiskRange
<1>5. \A i \in 1..e - s : GetLine(s + i - 1) = pushed[s + i]
  <2> SUFFICES ASSUME NEW i \in 1..e - s
               PROVE  GetLine(s + i - 1) = pushed[s + i]
    OBVIOUS
  <2>1. s + i - 1 \in 0..total - 1 /\ s + i - 1 + 1 = s + i
    BY <1>1
  <2> QED
    BY <2>1, GetLineClean
<1> QED
  BY <1>4, <1>5

(* And get_range is a stretch of it, wherever RAM begins.                  *)
LEMMA RangeClean ==
  ASSUME CleanInv, up, NEW s \in 0..total, NEW e \in 0..total + 1
  PROVE  GetRange(s, e) = SubSeq(pushed, s + 1, Lesser(e, total))
<1> DEFINE c == disk.count
           to == Lesser(e, total)
<1>1. /\ c \in Nat /\ ram \in Seq(Lines) /\ Len(ram) \in Nat /\ total \in Nat
      /\ pushed \in Seq(Lines) /\ Len(pushed) = total /\ c + Len(ram) = total
      /\ \A i \in 1..Len(ram) : ram[i] = pushed[c + i]
  BY CleanParts
<1>2. to \in Nat /\ to <= total /\ Lesser(s, total) = s /\ DiskLineCount = c /\ s \in Nat
  <2>1. s \in Nat /\ e \in Nat /\ s <= total
    BY <1>1
  <2>2. to \in Nat /\ to <= total
    BY <1>1, <2>1 DEF Lesser
  <2>3. Lesser(s, total) = s
    BY <2>1 DEF Lesser
  <2>4. DiskLineCount = c
    <3>1. c \in Nat /\ Len(ram) \in Nat /\ total = c + Len(ram)
      BY <1>1
    <3> HIDE DEF c
    <3> QED
      BY <3>1 DEF DiskLineCount
  <2> QED
    BY <2>1, <2>2, <2>3, <2>4
<1> HIDE DEF c, to
<1>3. ASSUME NEW b \in Nat, b <= to - c
      PROVE  /\ SubSeq(ram, b + 1, to - c) \in Seq(Lines)
             /\ Len(SubSeq(ram, b + 1, to - c)) = to - c - b
             /\ \A i \in 1..to - c - b : SubSeq(ram, b + 1, to - c)[i] = pushed[c + b + i]
  <2>1. to - c <= Len(ram) /\ to - c \in Int /\ b + 1 \in Int
    BY <1>1, <1>2
  <2>2. \A i \in b + 1..to - c : i \in 1..Len(ram) /\ ram[i] \in Lines
    BY <1>1, <2>1
  <2>3. /\ SubSeq(ram, b + 1, to - c) \in Seq(Lines)
        /\ Len(SubSeq(ram, b + 1, to - c))
             = IF b + 1 <= to - c THEN to - c - (b + 1) + 1 ELSE 0
        /\ \A i \in 1..to - c - (b + 1) + 1 :
             SubSeq(ram, b + 1, to - c)[i] = ram[b + 1 + i - 1]
    BY <2>1, <2>2, SubSeqProperties
  <2>4. Len(SubSeq(ram, b + 1, to - c)) = to - c - b
    BY <1>1, <1>2, <1>3, <2>3
  <2>5. ASSUME NEW i \in 1..to - c - b
        PROVE  SubSeq(ram, b + 1, to - c)[i] = pushed[c + b + i]
    <3>1. /\ i \in 1..to - c - (b + 1) + 1 /\ b + 1 + i - 1 = b + i
          /\ b + i \in 1..Len(ram) /\ c + (b + i) = c + b + i
      BY <1>1, <1>2, <2>1
    <3> QED
      BY <1>1, <2>3, <3>1
  <2> QED
    BY <2>3, <2>4, <2>5
<1> DEFINE z == SubSeq(pushed, s + 1, to)
<1>4. /\ z \in Seq(Lines)
      /\ s < to => Len(z) = to - s
      /\ ~(s < to) => z = << >>
      /\ \A i \in 1..to - s : z[i] = pushed[s + i]
  <2>1. \A i \in s + 1..to : pushed[i] \in Lines
    <3>1. \A i \in s + 1..to : i \in 1..Len(pushed)
      BY <1>1, <1>2
    <3> QED
      BY <1>1, <3>1
  <2>2. s + 1 \in Int /\ to \in Int
    BY <1>2
  <2>3. /\ z \in Seq(Lines)
        /\ Len(z) = IF s + 1 <= to THEN to - (s + 1) + 1 ELSE 0
        /\ \A i \in 1..to - (s + 1) + 1 : z[i] = pushed[s + 1 + i - 1]
    BY <2>1, <2>2, SubSeqProperties
  <2>4. ~(s < to) => z = << >>
    <3>1. ~(s < to) => to < s + 1
      BY <1>2
    <3> QED
      BY <2>2, <3>1, SubSeqEmpty
  <2>5. ASSUME NEW i \in 1..to - s
        PROVE  z[i] = pushed[s + i]
    <3>1. i \in 1..to - (s + 1) + 1 /\ s + 1 + i - 1 = s + i
      BY <1>2
    <3> QED
      BY <2>3, <3>1
  <2>6. s < to => Len(z) = to - s
    BY <1>2, <2>3
  <2> QED
    BY <2>3, <2>4, <2>5, <2>6
<1> HIDE DEF z
<1>5. CASE s >= to
  BY <1>2, <1>4, <1>5 DEF GetRange, to, z
<1>6. CASE ~(s >= to) /\ s >= c
  <2> DEFINE b == s - c
             r == SubSeq(ram, b + 1, to - c)
  <2>1. ~(s < c) /\ b \in Nat /\ b <= to - c
    BY <1>1, <1>2, <1>6
  <2>2. GetRange(s, e) = << >> \o r
    BY <1>2, <1>6, <2>1 DEF GetRange, to
  <2> HIDE DEF b
  <2>3. r \in Seq(Lines) /\ Len(r) = to - c - b /\ \A i \in 1..to - c - b : r[i] = pushed[c + b + i]
    BY <1>3, <2>1
  <2> HIDE DEF r
  <2>4. << >> \o r = r
    BY <2>3
  <2>5. to - c - b = to - s /\ c + b = s
    BY <1>1, <1>2 DEF b
  <2>6. Len(r) = Len(z) /\ \A i \in 1..Len(r) : r[i] = z[i]
    <3>1. Len(r) = to - s /\ \A i \in 1..to - s : r[i] = pushed[s + i]
      BY <2>3, <2>5
    <3>2. Len(z) = to - s
      BY <1>2, <1>4, <1>6
    <3> QED
      BY <1>4, <3>1, <3>2
  <2>7. r = z
    BY <1>4, <2>3, <2>6, SeqEqual
  <2> QED
    BY <2>2, <2>4, <2>7 DEF z, to
<1>7. CASE ~(s >= to) /\ ~(s >= c)
  <2> DEFINE m == Lesser(to, c)
             p == DiskRange(s, m)
             r == SubSeq(ram, 0 + 1, to - c)
  <2>1. s < c /\ s < to /\ m \in Nat /\ m <= c /\ m <= to /\ s < m /\ (m = to \/ m = c)
    BY <1>1, <1>2, <1>7 DEF Lesser
  <2>2. GetRange(s, e) = p \o r
    BY <1>2, <1>7, <2>1 DEF GetRange, to
  <2>3. p = [i \in 1..m - s |-> pushed[s + i]]
    BY <1>2, <2>1, DiskRangeClean DEF c
  <2> HIDE DEF m, p
  <2>4. p \in Seq(Lines) /\ Len(p) = m - s /\ \A i \in 1..m - s : p[i] = pushed[s + i]
    <3>1. \A i \in 1..m - s : pushed[s + i] \in Lines
      <4>1. \A i \in 1..m - s : s + i \in 1..Len(pushed)
        BY <1>1, <1>2, <2>1
      <4> QED
        BY <1>1, <4>1
    <3>2. p \in [1..m - s -> Lines] /\ m - s \in Nat
      BY <1>2, <2>1, <2>3, <3>1
    <3> QED
      BY <2>3, <3>2
  <2>5. CASE m = to /\ to <= c
    <3>1. r = << >>
      <4>1. to - c \in Int /\ to - c < 0 + 1
        BY <1>1, <1>2, <2>5
      <4> QED
        BY <4>1, SubSeqEmpty
    <3>2. p \o r = p
      <4>1. p \o << >> = p
        BY <2>4, ConcatEmptySeq
      <4> HIDE DEF r
      <4> QED
        BY <3>1, <4>1
    <3>3. Len(p) = Len(z) /\ \A i \in 1..Len(p) : p[i] = z[i]
      BY <1>2, <1>4, <2>1, <2>4, <2>5
    <3>4. p = z
      BY <1>4, <2>4, <3>3, SeqEqual
    <3> QED
      BY <2>2, <3>2, <3>4 DEF z, to
  <2>6. CASE m = c /\ c <= to
    <3>1. 0 \in Nat /\ 0 <= to - c
      BY <1>1, <1>2, <2>6
    <3>2. r \in Seq(Lines) /\ Len(r) = to - c - 0 /\ \A i \in 1..to - c - 0 : r[i] = pushed[c + 0 + i]
      BY <1>3, <3>1
    <3> HIDE DEF r
    <3>3. /\ p \o r \in Seq(Lines) /\ Len(p \o r) = Len(p) + Len(r)
          /\ \A i \in 1..Len(p) + Len(r) :
               (p \o r)[i] = IF i <= Len(p) THEN p[i] ELSE r[i - Len(p)]
      BY <2>4, <3>2, ConcatProperties
    <3>4. Len(p) = c - s /\ Len(r) = to - c /\ Len(p \o r) = to - s /\ Len(z) = to - s
      BY <1>1, <1>2, <1>4, <2>1, <2>4, <2>6, <3>2, <3>3
    <3>5. ASSUME NEW i \in 1..to - s
          PROVE  (p \o r)[i] = z[i]
      <4>1. z[i] = pushed[s + i]
        BY <1>4
      <4>2. i \in 1..Len(p) + Len(r)
        BY <1>1, <1>2, <3>4
      <4>3. CASE i <= Len(p)
        <5>1. i \in 1..m - s
          BY <1>1, <1>2, <2>6, <3>4, <4>3
        <5> QED
          BY <2>4, <3>3, <4>1, <4>2, <4>3, <5>1
      <4>4. CASE ~(i <= Len(p))
        <5>1. i - Len(p) \in 1..to - c - 0 /\ c + 0 + (i - Len(p)) = s + i
          BY <1>1, <1>2, <3>4, <4>4
        <5>2. r[i - Len(p)] = pushed[s + i]
          BY <3>2, <5>1
        <5> QED
          BY <3>3, <4>1, <4>2, <4>4, <5>2
      <4> QED
        BY <4>3, <4>4
    <3>6. p \o r = z
      BY <1>4, <3>3, <3>4, <3>5, SeqEqual
    <3> QED
      BY <2>2, <3>6 DEF z, to
  <2>7. to <= c \/ c <= to
    BY <1>1, <1>2
  <2>8. m = IF to <= c THEN to ELSE c
    BY DEF m, Lesser
  <2> QED
    BY <2>5, <2>6, <2>7, <2>8
<1> QED
  BY <1>5, <1>6, <1>7

(* Without faults CleanInv holds for ever.                                 *)
LEMMA SpecClean ==
  ASSUME Faults = {}
  PROVE  Spec => []CleanInv
<1>1. Init => CleanInv
  BY InitClean
<1>2. CleanInv /\ [Next]_vars => CleanInv'
  BY StepClean
<1> QED
  BY <1>1, <1>2, PTL DEF Spec

(* get_range returns the lines that were pushed, whether the range lies in *)
(* RAM, on disk or across both, and when it reaches beyond the end, at any *)
(* capacity of RAM and any flush interval (mod.rs:163-198).                *)
THEOREM RangesAreLines ==
  ASSUME Faults = {}
  PROVE  Spec => []RangesMatchLines
<1>1. CleanInv => RangesMatchLines
  BY RangeClean DEF RangesMatchLines
<1> QED
  BY <1>1, SpecClean, PTL

(* A reader sees the history in the next state as well.                    *)
LEMMA ShownNext ==
  CleanInv' => (Shown = pushed)'
<1>1. CleanInv => Shown = pushed
  BY ShownClean
<1> QED
  BY <1>1, PTL

(* One step of the buffer is one step of the history it promises, or none. *)
LEMMA StepRefines ==
  ASSUME CleanInv, CleanInv', Faults = {}, [Next]_vars
  PROVE  [History!Next]_<<Shown, up>>
<1>1. Shown = pushed /\ Shown' = pushed'
  <2>1. Shown = pushed
    BY ShownClean
  <2>2. Shown' = pushed'
    BY ShownNext
  <2> QED
    BY <2>1, <2>2
<1>2. CASE \E v \in Lines : PushLine(v)
  BY <1>1, <1>2 DEF PushLine, History!Next, History!Push
<1>3. CASE ReadDisk \/ Checkpoint \/ UNCHANGED vars
  BY <1>1, <1>3 DEF ReadDisk, Checkpoint, vars
<1>4. CASE Shutdown
  BY <1>1, <1>4 DEF Shutdown, History!Next, History!Stop
<1>5. CASE Kill \/ \E v \in Lines : KilledPush(v)
  BY <1>5 DEF Kill, KilledPush, KillInPush, KillInFlush, KilledInPush
<1>6. CASE Reopen
  <2> DEFINE n == Lesser(Len(pushed), Open(disk).count)
  <2>1. ~up /\ up' = TRUE /\ pushed' = SubSeq(pushed, 1, n)
    BY <1>6 DEF Reopen
  <2>2. n \in 0..Len(pushed)
    <3>1. Sound(disk, firm) /\ Settled(disk) /\ Kept(disk, pushed, firm)
      BY <2>1 DEF CleanInv, Inv
    <3>2. Open(disk).count = firm
      BY <3>1, KeptOpen
    <3>3. firm \in Nat /\ Len(pushed) \in Nat
      BY CleanParts
    <3> QED
      BY <3>2, <3>3 DEF Lesser
  <2> QED
    BY <1>1, <2>1, <2>2 DEF History!Next, History!Start
<1> QED
  BY <1>2, <1>3, <1>4, <1>5, <1>6 DEF Next, KilledPush

(* While nothing fails, a buffer is a scrollback: every line that was ever *)
(* pushed reads back at its own id, through evictions, flushes and reads   *)
(* of the disk, and an open brings back a leading part of it               *)
(* (mod.rs:1-18).  The detailed specification implements the abstract one. *)
THEOREM BufferIsAScrollback ==
  ASSUME Faults = {}
  PROVE  Spec => IsScrollback
<1>1. Init => History!Init
  BY DEF Init, History!Init, Shown
<1>2. CleanInv /\ CleanInv' /\ [Next]_vars => [History!Next]_<<Shown, up>>
  BY StepRefines
<1> QED
  BY <1>1, <1>2, SpecClean, PTL DEF Spec, IsScrollback, History!Spec

(* The search index knows every id but those the last open left out.       *)
SearchInv ==
  /\ CleanInv
  /\ skipped \in Nat
  /\ up => skipped <= total /\ indexed = skipped..total - 1

(* The index is rebuilt from every line while they are few enough.         *)
LEMMA RebuiltWhole ==
  ASSUME NEW d, DiskType(d), NEW p \in Seq(Lines), Kept(d, p, d.count), Exact(d),
         d.count <= RebuildCap
  PROVE  Rebuilt(d) = 0..d.count - 1
<1>1. \A id \in 0..d.count - 1 : ReadLine(d, id).ok /\ \E v \in Lines : Returns(d, id, v)
  BY KeptReturns
<1>2. d.count \in Nat
  BY DiskFields
<1>3. ~(d.count > RebuildCap)
  BY <1>2, RebuildAssumption
<1> DEFINE ids == 0..d.count - 1
<1>4. Rebuilt(d) = {id \in ids : \E v \in Lines : Returns(d, id, v)}
  BY <1>1, <1>3 DEF Rebuilt
<1> HIDE DEF ids
<1> QED
  BY <1>1, <1>4 DEF ids

(* After an open every line is indexed again, or none.                     *)
LEMMA ReopenSearch ==
  ASSUME SearchInv, Reopen
  PROVE  SearchInv'
<1> DEFINE d == Open(disk)
<1>1. /\ ~up /\ total' = d.count /\ indexed' = Rebuilt(d)
      /\ skipped' = IF d.count > RebuildCap THEN d.count ELSE 0
  BY DEF Reopen
<1>2. /\ Sound(disk, firm) /\ Settled(disk) /\ Kept(disk, pushed, firm)
      /\ pushed \in Seq(Lines)
  BY <1>1, CleanParts DEF SearchInv, CleanInv, Inv
<1>3. Kept(d, pushed, d.count) /\ Exact(d) /\ DiskType(d)
  BY <1>2, KeptOpen, OpenFacts DEF Sound, Held
<1>4. CleanInv'
  BY ReopenClean DEF SearchInv
<1> HIDE DEF d
<1>5. d.count \in Nat /\ RebuildCap \in Nat
  BY <1>3, DiskFields, RebuildAssumption
<1>6. CASE d.count > RebuildCap
  <2>1. Rebuilt(d) = {} /\ skipped' = d.count /\ d.count..d.count - 1 = {}
    BY <1>1, <1>5, <1>6 DEF Rebuilt
  <2> QED
    BY <1>1, <1>4, <1>5, <2>1 DEF SearchInv
<1>7. CASE ~(d.count > RebuildCap)
  <2>1. Rebuilt(d) = 0..d.count - 1
    BY <1>2, <1>3, <1>5, <1>7, RebuiltWhole
  <2> QED
    BY <1>1, <1>4, <1>5, <1>7, <2>1 DEF SearchInv
<1> QED
  BY <1>6, <1>7

(* Every step, without faults.                                             *)
LEMMA StepSearch ==
  ASSUME SearchInv, Faults = {}, [Next]_vars
  PROVE  SearchInv'
<1>1. CleanInv'
  BY StepClean DEF SearchInv
<1>2. CASE \E v \in Lines : PushLine(v)
  <2>1. up /\ total' = total + 1 /\ indexed' = indexed \cup {total} /\ skipped' = skipped
    BY <1>2 DEF PushLine
  <2>2. total \in Nat /\ skipped \in Nat /\ skipped <= total /\ indexed = skipped..total - 1
    BY <2>1, CleanParts DEF SearchInv
  <2>3. indexed' = skipped'..total' - 1 /\ skipped' <= total'
    BY <2>1, <2>2
  <2> QED
    BY <1>1, <2>1, <2>2, <2>3 DEF SearchInv
<1>3. CASE Reopen
  BY <1>3, ReopenSearch
<1>4. CASE ReadDisk \/ Checkpoint \/ UNCHANGED vars
  BY <1>1, <1>4 DEF ReadDisk, Checkpoint, vars, SearchInv
<1>5. CASE Shutdown \/ Kill \/ \E v \in Lines : KilledPush(v)
  BY <1>1, <1>5
  DEF Shutdown, Kill, KilledPush, KillInPush, KillInFlush, KilledInPush, SearchInv
<1> QED
  BY <1>2, <1>3, <1>4, <1>5 DEF Next, KilledPush

(* The scan of the whole history, as the lines pushed.                     *)
LEMMA ScanClean ==
  ASSUME CleanInv, up, NEW v
  PROVE  FullScan(v) = {id \in 0..total - 1 : pushed[id + 1] = v}
<1>1. total \in Nat /\ pushed \in Seq(Lines) /\ Len(pushed) = total
  BY CleanParts
<1>2. Lesser(total, total) = total /\ 0 \in 0..total /\ total \in 0..total + 1
  BY <1>1 DEF Lesser
<1>3. GetRange(0, total) = SubSeq(pushed, 1, total)
  BY <1>2, RangeClean
<1> DEFINE lines == GetRange(0, total)
<1>4. DOMAIN lines = 1..total /\ \A i \in 1..total : lines[i] = pushed[i]
  BY <1>1, <1>3
<1>5. FullScan(v) = {i - 1 : i \in {j \in DOMAIN lines : lines[j] = v}}
  BY DEF FullScan
<1> HIDE DEF lines
<1>6. FullScan(v) = {i - 1 : i \in {j \in 1..total : pushed[j] = v}}
  BY <1>4, <1>5
<1> QED
  BY <1>1, <1>6

(* Searching through the index finds what a scan of the whole history      *)
(* finds, but for the lines an open with more than REBUILD_INDEX_LINE_CAP  *)
(* of them leaves out: the index neither misses a line nor proposes one    *)
(* that is not there, across evictions and reopenings (mod.rs:71-91).      *)
THEOREM SearchFindsEveryLine ==
  ASSUME Faults = {}
  PROVE  Spec => []SearchComplete
<1>1. Init => SearchInv
  BY InitClean DEF Init, SearchInv
<1>2. SearchInv /\ [Next]_vars => SearchInv'
  BY StepSearch
<1>3. ASSUME SearchInv
      PROVE  SearchComplete
  <2> SUFFICES ASSUME up, NEW v \in Lines
               PROVE  IndexedSearch(v) = {id \in FullScan(v) : id >= skipped}
    BY DEF SearchComplete
  <2>1. CleanInv /\ skipped \in Nat /\ indexed = skipped..total - 1 /\ total \in Nat
    BY <1>3, CleanParts DEF SearchInv
  <2>2. \A id \in 0..total - 1 : GetLine(id) = pushed[id + 1]
    BY <2>1, GetLineClean
  <2>3. indexed = {id \in 0..total - 1 : id >= skipped}
    BY <2>1
  <2>4. IndexedSearch(v) = {id \in 0..total - 1 : id >= skipped /\ pushed[id + 1] = v}
    BY <2>2, <2>3 DEF IndexedSearch
  <2> QED
    BY <2>1, <2>4, ScanClean
<1> QED
  BY <1>1, <1>2, <1>3, PTL DEF Spec

-----------------------------------------------------------------------------
(* What a kill can cost, also on files that an earlier kill left untidy.   *)
(* The first a lines were each appended where both files ended, so they    *)
(* are stored; a kill keeps those of them that a flush handed over.        *)
StoredTo(d, p, a) == \A id \in 0..a - 1 : Stored(d, id, p[id + 1])

LossUp ==
  /\ aligned <= disk.count
  /\ StoredTo(disk, pushed, aligned)
  /\ Len(pushed) = total
  /\ \A i \in 1..Len(ram) : ram[i] = pushed[disk.count + i]

LossInv ==
  /\ Inv
  /\ firm <= Len(pushed)
  /\ up => LossUp
  /\ ~up => StoredTo(disk, pushed, Lesser(aligned, firm))

(* Stored lines stay stored when both files only grow.                     *)
LEMMA StoredGrows ==
  ASSUME NEW d, DiskType(d), NEW e, DiskType(e),
         StartsWith(e.cache.data, d.cache.data), StartsWith(e.index.data, d.index.data),
         NEW id \in Nat, NEW v \in Lines, Stored(d, id, v)
  PROVE  Stored(e, id, v)
<1> DEFINE n == Len(d.index.data)
           m == Len(d.cache.data)
<1>1. n \in Nat /\ m \in Nat
  BY DiskData
<1>2. 3 * id + 3 <= n /\ EndOf(Entry(d.index.data, id)) <= m
  BY DEF Stored
<1>3. /\ n <= Len(e.index.data) /\ \A i \in 1..n : e.index.data[i] = d.index.data[i]
      /\ m <= Len(e.cache.data) /\ \A i \in 1..m : e.cache.data[i] = d.cache.data[i]
  BY DEF StartsWith
<1>4. n <= Len(d.index.data) /\ m <= Len(d.cache.data)
  BY <1>1
<1> HIDE DEF n, m
<1> QED
  BY <1>1, <1>2, <1>3, <1>4, StoredStays

(* A kill keeps the stored lines whose records the system has.             *)
LEMMA StoredKilled ==
  ASSUME NEW d, NEW f, Held(d, f), NEW id \in Nat, id < f, NEW v \in Lines, Stored(d, id, v)
  PROVE  Stored(Killed(d), id, v)
<1> DEFINE n == d.index.os
           m == d.cache.os
           e == Killed(d)
<1>1. DiskType(d) /\ f \in Nat /\ n = 3 * f /\ Covered(d.index.data, n, m)
  BY DEF Held
<1>2. /\ n \in Nat /\ m \in Nat /\ n <= Len(d.index.data) /\ m <= Len(d.cache.data)
  BY <1>1, DiskData
<1>3. /\ DiskType(e) /\ Len(e.cache.data) = m /\ Len(e.index.data) = n
      /\ \A i \in 1..m : e.cache.data[i] = d.cache.data[i]
      /\ \A i \in 1..n : e.index.data[i] = d.index.data[i]
  BY <1>1, KilledParts
<1> HIDE DEF e, n, m
<1>4. 3 * id + 3 <= n /\ id \in 0..n
  BY <1>1
<1>5. EndOf(Entry(d.index.data, id)) <= m
  BY <1>1, <1>4 DEF Covered
<1>6. n <= Len(e.index.data) /\ m <= Len(e.cache.data)
  BY <1>2, <1>3
<1>7. Stored(e, id, v)
  BY <1>1, <1>2, <1>3, <1>4, <1>5, <1>6, StoredStays
<1> QED
  BY <1>7 DEF e

(* The same words store the same lines.                                    *)
LEMMA StoredSame ==
  ASSUME NEW d, NEW e, NEW p, NEW a, StoredTo(d, p, a),
         e.cache.data = d.cache.data, e.index.data = d.index.data
  PROVE  StoredTo(e, p, a)
BY DEF StoredTo, Stored

(* So do files that only grew, for a history that only grew.               *)
LEMMA StoredToGrows ==
  ASSUME NEW d, DiskType(d), NEW e, DiskType(e),
         StartsWith(e.cache.data, d.cache.data), StartsWith(e.index.data, d.index.data),
         NEW p \in Seq(Lines), NEW q, NEW a \in Nat, a <= Len(p),
         \A i \in 1..Len(p) : q[i] = p[i], StoredTo(d, p, a)
  PROVE  StoredTo(e, q, a)
<1> SUFFICES ASSUME NEW id \in 0..a - 1
             PROVE  Stored(e, id, q[id + 1])
  BY DEF StoredTo
<1>1. id \in Nat /\ id + 1 \in 1..Len(p)
  OBVIOUS
<1>2. q[id + 1] = p[id + 1] /\ p[id + 1] \in Lines
  BY <1>1
<1>3. Stored(d, id, p[id + 1])
  BY DEF StoredTo
<1> QED
  BY <1>1, <1>2, <1>3, StoredGrows

(* What append_line adds it adds behind what there is.                     *)
LEMMA AppendStarts ==
  ASSUME NEW d, DiskType(d), NEW v \in Lines, NEW k \in 0..4
  PROVE  LET a == AppendWrites(d, v, k)
         IN /\ DiskType(a)
            /\ StartsWith(a.cache.data, d.cache.data)
            /\ StartsWith(a.index.data, d.index.data)
<1>1. StartsWith(AppendWrites(d, v, k).cache.data, d.cache.data)
  BY AppendContent
<1> QED
  BY <1>1, AppendWritesFacts

(* The same of all of append_line.                                         *)
LEMMA AppendLineStarts ==
  ASSUME NEW d, DiskType(d), NEW v \in Lines
  PROVE  LET e == AppendLine(d, v)
         IN /\ DiskType(e)
            /\ StartsWith(e.cache.data, d.cache.data)
            /\ StartsWith(e.index.data, d.index.data)
<1> DEFINE a == AppendWrites(d, v, 4)
           e == AppendLine(d, v)
<1>1. DiskType(e) /\ e.cache = a.cache /\ e.index = a.index
  BY AppendLineFacts
<1>2. StartsWith(a.cache.data, d.cache.data) /\ StartsWith(a.index.data, d.index.data)
  <2>1. 4 \in 0..4
    OBVIOUS
  <2> QED
    BY <2>1, AppendStarts
<1> HIDE DEF a, e
<1>3. DiskType(e) /\ StartsWith(e.cache.data, d.cache.data) /\ StartsWith(e.index.data, d.index.data)
  BY <1>1, <1>2
<1> QED
  BY <1>3 DEF e

(* A line appended where both files end is stored.                         *)
LEMMA AppendStores ==
  ASSUME NEW d, DiskType(d), NEW v \in Lines, EndsAgree(d)
  PROVE  Stored(AppendLine(d, v), d.count, v)
<1> DEFINE e == AppendLine(d, v)
<1>1. Len(d.cache.data) = d.off /\ Len(d.index.data) = 3 * d.count /\ d.count \in Nat
  BY DiskFields DEF EndsAgree
<1>2. Returns(e, d.count, v)
  BY <1>1, AppendShows
<1>3. DiskType(e) /\ e.mmap = NoMmap
  BY AppendLineFacts
<1> HIDE DEF e
<1>4. e.mmap <= Len(e.cache.data)
  <2>1. Len(e.cache.data) \in Nat
    BY <1>3, DiskData
  <2> QED
    BY <1>3, <2>1 DEF NoMmap
<1>5. Stored(e, d.count, v)
  BY <1>1, <1>2, <1>3, <1>4, ReturnsFacts
<1> QED
  BY <1>5 DEF e

(* The parts of LossInv, with their types.                                 *)
LEMMA LossParts ==
  ASSUME LossInv
  PROVE  /\ DiskType(disk) /\ disk.count \in Nat /\ firm \in Nat /\ aligned \in Nat
         /\ ram \in Seq(Lines) /\ Len(ram) \in Nat /\ pushed \in Seq(Lines)
         /\ Len(pushed) \in Nat /\ total \in Nat /\ firm <= Len(pushed)
         /\ Sound(disk, firm)
         /\ up => /\ disk.count + Len(ram) = total /\ Len(pushed) = total
                  /\ aligned <= disk.count /\ aligned <= Len(pushed)
                  /\ StoredTo(disk, pushed, aligned)
                  /\ \A i \in 1..Len(ram) : ram[i] = pushed[disk.count + i]
                  /\ Placed(disk)
<1>1. /\ DiskType(disk) /\ disk.count \in Nat /\ firm \in Nat /\ aligned \in Nat
      /\ ram \in Seq(Lines) /\ Len(ram) \in Nat /\ pushed \in Seq(Lines)
      /\ Len(pushed) \in Nat /\ total \in Nat /\ firm <= Len(pushed)
      /\ Sound(disk, firm)
  BY DiskFields, BoundsAssumption DEF LossInv, Inv, TypeOK
<1>2. ASSUME up
      PROVE  /\ disk.count + Len(ram) = total /\ Len(pushed) = total
             /\ aligned <= disk.count
             /\ StoredTo(disk, pushed, aligned)
             /\ \A i \in 1..Len(ram) : ram[i] = pushed[disk.count + i]
             /\ Placed(disk)
  BY <1>2 DEF LossInv, LossUp, Inv, UpInv
<1>3. up => aligned <= Len(pushed)
  BY <1>1, <1>2
<1> QED
  BY <1>1, <1>2, <1>3

(* push_line.                                                              *)
LEMMA PushLoss ==
  ASSUME LossInv, "io" \notin Faults, NEW v \in Lines, PushLine(v)
  PROVE  LossInv'
<1> DEFINE c == disk.count
           s == Append(ram, v)
           q == Append(pushed, v)
<1>1. /\ up /\ up' = up /\ total' = total + 1 /\ pushed' = q
      /\ Keep(v) \/ Evict(v)
  BY DEF PushLine
<1>2. /\ DiskType(disk) /\ c \in Nat /\ firm \in Nat /\ aligned \in Nat
      /\ ram \in Seq(Lines) /\ Len(ram) \in Nat /\ pushed \in Seq(Lines)
      /\ total \in Nat /\ firm <= Len(pushed)
      /\ c + Len(ram) = total /\ Len(pushed) = total
      /\ aligned <= c /\ aligned <= Len(pushed) /\ StoredTo(disk, pushed, aligned)
      /\ \A i \in 1..Len(ram) : ram[i] = pushed[c + i]
  BY <1>1, LossParts
<1>3. Inv'
  BY PushLineInv DEF LossInv
<1>4. /\ q \in Seq(Lines) /\ Len(q) = total + 1 /\ c + 1 <= Len(q)
      /\ \A i \in 1..Len(s) : s[i] = q[c + i]
      /\ Head(s) = q[c + 1]
      /\ \A i \in 1..Len(Tail(s)) : Tail(s)[i] = q[c + 1 + i]
  <2>1. Follows(ram, pushed, c)
    BY <1>2 DEF Follows
  <2>2. FollowsOn(ram, pushed, c, v)
    BY <1>2, <2>1, RamFollows
  <2> QED
    BY <1>2, <2>2 DEF FollowsOn
<1>5. \A i \in 1..Len(pushed) : q[i] = pushed[i]
  BY <1>2, AppendProperties
<1>6. Head(s) \in Lines
  BY <1>2, OldestFacts
<1> HIDE DEF c, s, q
<1>7. CASE Keep(v)
  <2>1. ram' = s /\ disk' = disk /\ firm' = firm /\ aligned' = aligned
    BY <1>7 DEF Keep, s
  <2>2. StoredTo(disk', pushed', aligned')
    <3>1. /\ StartsWith(disk.cache.data, disk.cache.data)
          /\ StartsWith(disk.index.data, disk.index.data)
      <4>1. Len(disk.cache.data) \in Nat /\ Len(disk.index.data) \in Nat
        BY <1>2, DiskData
      <4> QED
        BY <4>1 DEF StartsWith
    <3> QED
      BY <1>1, <1>2, <1>5, <2>1, <3>1, StoredToGrows
  <2>3. firm' <= Len(pushed')
    BY <1>1, <1>2, <1>4, <2>1
  <2> QED
    BY <1>1, <1>2, <1>3, <1>4, <2>1, <2>2, <2>3 DEF LossInv, LossUp, c
<1>8. CASE Evict(v)
  <2> DEFINE w == Head(s)
             d == AppendLine(disk, w)
  <2>1. Spilled(w) = {d}
    BY DEF Spilled
  <2>2. /\ DiskType(d) /\ d.count = c + 1
        /\ StartsWith(d.cache.data, disk.cache.data)
        /\ StartsWith(d.index.data, disk.index.data)
    BY <1>2, <1>6, AppendLineFacts, AppendLineStarts DEF c
  <2>3. /\ ram' = Tail(s) /\ Aligning
        /\ \/ disk' = d /\ firm' = firm
           \/ disk' = Flush(d) /\ firm' = d.count
    BY <1>8, <2>1 DEF Evict, s
  <2>4. StoredTo(d, q, aligned)
    BY <1>2, <1>5, <2>2, StoredToGrows
  <2>5. EndsAgree(disk) => Stored(d, c, q[c + 1])
    BY <1>2, <1>4, <1>6, AppendStores DEF c
  <2> HIDE DEF w, d
  <2>6. /\ disk'.cache.data = d.cache.data /\ disk'.index.data = d.index.data
        /\ disk'.count = c + 1
    BY <2>2, <2>3, FlushFacts
  <2>7. StoredTo(d, q, aligned') /\ aligned' <= disk'.count /\ aligned' \in Nat
    <3>1. CASE aligned = c /\ EndsAgree(disk)
      <4>1. aligned' = c + 1
        BY <2>3, <2>6, <3>1 DEF Aligning, c
      <4>2. ASSUME NEW id \in 0..c
            PROVE  Stored(d, id, q[id + 1])
        <5>1. id \in 0..c - 1 \/ id = c
          BY <1>2
        <5> QED
          BY <2>4, <2>5, <3>1, <5>1 DEF StoredTo
      <4>3. 0..aligned' - 1 = 0..c
        BY <1>2, <4>1
      <4> QED
        BY <1>2, <2>6, <4>1, <4>2, <4>3 DEF StoredTo
    <3>2. CASE ~(aligned = c /\ EndsAgree(disk))
      <4>1. aligned' = aligned
        BY <2>3, <3>2 DEF Aligning, c
      <4>2. aligned <= c + 1
        BY <1>2
      <4> QED
        BY <1>2, <2>4, <2>6, <4>1, <4>2
    <3> QED
      BY <3>1, <3>2
  <2>8. StoredTo(disk', pushed', aligned')
    BY <1>1, <2>6, <2>7, StoredSame
  <2>9. firm' <= Len(pushed')
    <3>1. firm' = firm \/ firm' = c + 1
      BY <2>2, <2>3
    <3>2. pushed' = q /\ Len(q) = total + 1 /\ c + 1 <= Len(q) /\ firm <= total
      BY <1>1, <1>2, <1>4
    <3> QED
      BY <1>2, <3>1, <3>2
  <2>10. Len(pushed') = total' /\ \A i \in 1..Len(ram') : ram'[i] = pushed'[disk'.count + i]
    BY <1>1, <1>4, <2>3, <2>6
  <2>11. LossUp'
    BY <2>7, <2>8, <2>10 DEF LossUp
  <2> QED
    BY <1>1, <1>3, <2>9, <2>11 DEF LossInv
<1> QED
  BY <1>1, <1>7, <1>8

(* ReadDisk and Checkpoint.                                                *)
LEMMA FlushLoss ==
  ASSUME LossInv, Inv', up, disk' \in {Sync(disk), AfterRead(disk)}, firm' = disk.count,
         UNCHANGED <<ram, total, up, pushed, aligned>>
  PROVE  LossInv'
<1>1. /\ DiskType(disk) /\ disk.count \in Nat /\ Len(ram) \in Nat
      /\ disk.count + Len(ram) = total /\ Len(pushed) = total
      /\ aligned <= disk.count /\ StoredTo(disk, pushed, aligned)
      /\ \A i \in 1..Len(ram) : ram[i] = pushed[disk.count + i]
  BY LossParts
<1>2. /\ disk'.count = disk.count
      /\ disk'.cache.data = disk.cache.data /\ disk'.index.data = disk.index.data
  BY <1>1, FlushFacts
<1>3. StoredTo(disk', pushed, aligned)
  BY <1>1, <1>2, StoredSame
<1>4. disk.count <= Len(pushed)
  BY <1>1
<1> QED
  BY <1>1, <1>2, <1>3, <1>4 DEF LossInv, LossUp

(* The files a process leaves, if it ended with files d.                   *)
LEMMA StopLoss ==
  ASSUME Inv', NEW d, Held(d, firm'), disk' = Killed(d), up' = FALSE,
         pushed' \in Seq(Lines), firm' \in Nat, firm' <= Len(pushed'), aligned' \in Nat,
         StoredTo(d, pushed', aligned')
  PROVE  LossInv'
<1> DEFINE n == Lesser(aligned', firm')
<1>1. /\ n \in Nat /\ n <= aligned' /\ n <= firm' /\ n <= Len(pushed')
      /\ aligned' \in Nat /\ firm' \in Nat /\ Len(pushed') \in Nat
  BY DEF Lesser
<1> HIDE DEF n
<1>2. ASSUME NEW id \in 0..n - 1
      PROVE  Stored(disk', id, pushed'[id + 1])
  <2>1. id \in Nat /\ id < firm' /\ id \in 0..aligned' - 1 /\ id + 1 \in 1..Len(pushed')
    <3> DEFINE a == aligned'
               f == firm'
               l == Len(pushed')
    <3>1. n \in Nat /\ n <= a /\ n <= f /\ n <= l /\ a \in Nat /\ f \in Nat /\ l \in Nat
      BY <1>1
    <3> HIDE DEF a, f, l
    <3>2. id \in Nat /\ id < f /\ id \in 0..a - 1 /\ id + 1 \in 1..l
      BY <3>1
    <3> QED
      BY <3>2 DEF a, f, l
  <2>2. Stored(d, id, pushed'[id + 1])
    BY <2>1 DEF StoredTo
  <2>3. pushed'[id + 1] \in Lines
    BY <2>1
  <2> QED
    BY <2>1, <2>2, <2>3, StoredKilled
<1>3. StoredTo(disk', pushed', n)
  BY <1>2 DEF StoredTo
<1> QED
  BY <1>3 DEF LossInv, n

(* The end of a session.                                                   *)
LEMMA ShutdownLoss ==
  ASSUME LossInv, "io" \notin Faults, Shutdown
  PROVE  LossInv'
<1>1. /\ up /\ up' = FALSE /\ disk' = Killed(Sync(disk)) /\ firm' = disk.count
      /\ pushed' = pushed /\ aligned' = aligned
  BY DEF Shutdown
<1>2. Inv'
  BY ShutdownInv DEF LossInv
<1>3. /\ DiskType(disk) /\ disk.count \in Nat /\ Len(ram) \in Nat /\ aligned \in Nat
      /\ disk.count + Len(ram) = total /\ Len(pushed) = total /\ pushed \in Seq(Lines)
      /\ StoredTo(disk, pushed, aligned) /\ Sound(disk, firm) /\ Placed(disk)
  BY <1>1, LossParts
<1>4. Held(Sync(disk), disk.count)
  BY <1>3, FlushedSound DEF Sound
<1>5. StoredTo(Sync(disk), pushed, aligned)
  BY <1>3, FlushFacts, StoredSame
<1>6. disk.count <= Len(pushed)
  BY <1>3
<1> QED
  BY <1>1, <1>2, <1>3, <1>4, <1>5, <1>6, StopLoss

(* A kill, between two calls or half way through a flush.                  *)
LEMMA KillLoss ==
  ASSUME LossInv, Kill
  PROVE  LossInv'
<1>1. /\ up /\ up' = FALSE /\ disk' \in {Killed(disk), Killed(HalfFlushed(disk))}
      /\ firm' = firm /\ pushed' = pushed /\ aligned' = aligned
  BY DEF Kill
<1>2. Inv'
  BY KillInv DEF LossInv
<1>3. /\ DiskType(disk) /\ firm \in Nat /\ aligned \in Nat /\ pushed \in Seq(Lines)
      /\ firm <= Len(pushed) /\ StoredTo(disk, pushed, aligned) /\ Held(disk, firm)
  BY <1>1, LossParts DEF Sound
<1>4. Held(HalfFlushed(disk), firm) /\ StoredTo(HalfFlushed(disk), pushed, aligned)
  BY <1>3, HalfHeld, HalfFlushedFacts, StoredSame
<1>5. PICK d : Held(d, firm) /\ StoredTo(d, pushed, aligned) /\ disk' = Killed(d)
  BY <1>1, <1>3, <1>4
<1> QED
  BY <1>1, <1>2, <1>3, <1>5, StopLoss

(* A kill inside push_line.                                                *)
LEMMA KilledInPushLoss ==
  ASSUME LossInv, NEW v \in Lines, KilledPush(v)
  PROVE  LossInv'
<1> DEFINE w == Head(Append(ram, v))
           q == Append(pushed, v)
<1>1. /\ up /\ up' = FALSE /\ firm' = firm /\ pushed' = q /\ aligned' = aligned
      /\ \/ \E k \in 1..4 : disk' = Killed(AppendWrites(disk, w, k))
         \/ disk' = Killed(HalfFlushed(AppendLine(disk, w)))
  BY DEF KilledPush, KillInPush, KillInFlush, KilledInPush
<1>2. Inv'
  BY KilledInPushInv DEF LossInv
<1>3. /\ DiskType(disk) /\ firm \in Nat /\ aligned \in Nat /\ pushed \in Seq(Lines)
      /\ ram \in Seq(Lines) /\ Len(pushed) \in Nat
      /\ firm <= Len(pushed) /\ aligned <= Len(pushed) /\ StoredTo(disk, pushed, aligned)
      /\ Sound(disk, firm) /\ Placed(disk)
  BY <1>1, LossParts
<1>4. w \in Lines
  BY <1>3, OldestFacts
<1>5. /\ q \in Seq(Lines) /\ Len(q) = Len(pushed) + 1
      /\ \A i \in 1..Len(pushed) : q[i] = pushed[i]
  BY <1>3, AppendProperties
<1> HIDE DEF w, q
<1>6. Len(disk.index.data) - disk.index.os + 3 <= IndexCap
  BY <1>1, Room DEF LossInv
<1>7. ASSUME NEW k \in 1..4
      PROVE  /\ Held(AppendWrites(disk, w, k), firm)
             /\ StoredTo(AppendWrites(disk, w, k), q, aligned)
  <2>1. k \in 0..4
    OBVIOUS
  <2>2. Held(AppendWrites(disk, w, k), firm)
    BY <1>3, <1>4, <1>6, <2>1, AppendHeld DEF Sound
  <2>3. /\ DiskType(AppendWrites(disk, w, k))
        /\ StartsWith(AppendWrites(disk, w, k).cache.data, disk.cache.data)
        /\ StartsWith(AppendWrites(disk, w, k).index.data, disk.index.data)
    BY <1>3, <1>4, <2>1, AppendStarts
  <2>4. StoredTo(AppendWrites(disk, w, k), q, aligned)
    BY <1>3, <1>5, <2>3, StoredToGrows
  <2> QED
    BY <2>2, <2>4
<1>8. /\ Held(HalfFlushed(AppendLine(disk, w)), firm)
      /\ StoredTo(HalfFlushed(AppendLine(disk, w)), q, aligned)
  <2> DEFINE d == AppendLine(disk, w)
  <2>1. Sound(d, firm)
    BY <1>3, <1>4, <1>6, AppendSound
  <2>2. /\ DiskType(d) /\ StartsWith(d.cache.data, disk.cache.data)
        /\ StartsWith(d.index.data, disk.index.data)
    BY <1>3, <1>4, AppendLineStarts
  <2> HIDE DEF d
  <2>3. StoredTo(d, q, aligned)
    BY <1>3, <1>5, <2>2, StoredToGrows
  <2>4. Held(HalfFlushed(d), firm) /\ StoredTo(HalfFlushed(d), q, aligned)
    BY <2>1, <2>2, <2>3, HalfHeld, HalfFlushedFacts, StoredSame DEF Sound
  <2> QED
    BY <2>4 DEF d
<1>9. PICK d : Held(d, firm) /\ StoredTo(d, q, aligned) /\ disk' = Killed(d)
  BY <1>1, <1>7, <1>8
<1>10. firm <= Len(q)
  BY <1>3, <1>5
<1> QED
  BY <1>1, <1>2, <1>3, <1>5, <1>9, <1>10, StopLoss

(* An open reads back what it still has of the lines well placed.          *)
LEMMA ReopenLoss ==
  ASSUME LossInv, Reopen
  PROVE  /\ LossInv'
         /\ \A id \in 0..Lesser(firm, aligned) - 1 : Returns(disk', id, pushed[id + 1])
<1> DEFINE d == Open(disk)
           n == Lesser(aligned, firm)
<1>1. /\ ~up /\ up' = TRUE /\ ram' = << >> /\ total' = d.count /\ firm' = disk'.count
      /\ disk' = IF 0 < d.count /\ d.count <= RebuildCap THEN AfterRead(d) ELSE d
      /\ pushed' = SubSeq(pushed, 1, Lesser(Len(pushed), d.count))
      /\ aligned' = Lesser(aligned, d.count)
  BY DEF Reopen
<1>2. Inv'
  BY ReopenInv DEF LossInv
<1>3. /\ Sound(disk, firm) /\ Settled(disk) /\ StoredTo(disk, pushed, n)
      /\ DiskType(disk) /\ firm \in Nat /\ aligned \in Nat /\ pushed \in Seq(Lines)
      /\ Len(pushed) \in Nat /\ firm <= Len(pushed)
  BY <1>1, LossParts DEF LossInv, Inv
<1>4. /\ ~IndexAhead(disk) /\ Sound(d, firm) /\ d.count = firm /\ DiskType(d)
  BY <1>3, OpenFacts DEF Sound, Held
<1>5. d.mmap = NoMmap /\ d.cache = disk.cache /\ d.index = disk.index
  <2>1. /\ d.mmap = NoMmap
        /\ d.index = IF d.count = 0 THEN disk.index ELSE KeepRecords(disk.index, d.count)
        /\ d.cache = disk.cache
    BY <1>3, <1>4, OpenParts
  <2>2. KeepRecords(disk.index, firm) = disk.index
    BY <1>3 DEF KeepRecords, Sound, Held, Settled
  <2> QED
    BY <1>4, <2>1, <2>2
<1> HIDE DEF d
<1>6. n \in Nat /\ n <= firm /\ n <= aligned /\ Lesser(firm, aligned) = n
  BY <1>3 DEF Lesser
<1> HIDE DEF n
<1>7. /\ DiskType(disk') /\ disk'.count = firm
      /\ disk'.cache.data = disk.cache.data /\ disk'.index.data = disk.index.data
      /\ disk'.mmap = NoMmap \/ disk'.mmap = Len(disk'.cache.data)
  <2>1. CASE disk' = d
    BY <1>4, <1>5, <2>1
  <2>2. CASE disk' = AfterRead(d)
    <3>1. /\ DiskType(disk') /\ disk'.count = d.count
          /\ disk'.cache.data = d.cache.data /\ disk'.index.data = d.index.data
      BY <1>4, <2>2, FlushFacts
    <3>2. disk'.mmap = Flush(d).cache.os
      BY <1>5, <2>2, DiskParts DEF AfterRead
    <3>3. Flush(d).cache.os = Len(d.cache.data)
      BY <1>4, FlushFacts
    <3> QED
      BY <1>4, <1>5, <3>1, <3>2, <3>3
  <2> QED
    BY <1>1, <2>1, <2>2
<1>8. StoredTo(disk', pushed, n)
  BY <1>3, <1>7, StoredSame
<1>9. ASSUME NEW id \in 0..n - 1
      PROVE  Returns(disk', id, pushed[id + 1])
  <2>1. id \in Nat /\ id < firm /\ id + 1 \in 1..Len(pushed)
    BY <1>3, <1>6
  <2>2. pushed[id + 1] \in Lines /\ Stored(disk', id, pushed[id + 1])
    BY <1>3, <1>8, <2>1 DEF StoredTo
  <2>3. Len(disk'.cache.data) \in Nat
    BY <1>7, DiskData
  <2>4. disk'.mmap <= Len(disk'.cache.data) /\ Visible(disk') = Len(disk'.cache.data)
    BY <1>7, <2>3 DEF Visible, NoMmap
  <2>5. EndOf(Entry(disk'.index.data, id)) <= Visible(disk')
    BY <2>2, <2>4 DEF Stored
  <2> QED
    BY <1>7, <2>1, <2>2, <2>4, <2>5, ReturnsFacts
<1>10. /\ pushed' \in Seq(Lines) /\ Len(pushed') = firm
       /\ \A i \in 1..firm : pushed'[i] = pushed[i]
  <2>1. Lesser(Len(pushed), firm) = firm
    BY <1>3 DEF Lesser
  <2>2. pushed' = SubSeq(pushed, 1, firm)
    BY <1>1, <1>4, <2>1
  <2> QED
    BY <1>3, <2>2
<1>11. StoredTo(disk', pushed', n)
  <2>1. ASSUME NEW id \in 0..n - 1
        PROVE  Stored(disk', id, pushed'[id + 1])
    <3>1. id + 1 \in 1..firm
      BY <1>3, <1>6
    <3> QED
      BY <1>8, <1>10, <3>1 DEF StoredTo
  <2> QED
    BY <2>1 DEF StoredTo
<1>12. aligned' = n /\ total' = firm /\ firm' = firm
  BY <1>1, <1>4, <1>7 DEF n
<1>13. Len(ram') = 0
  BY <1>1
<1>14. LossUp'
  BY <1>6, <1>7, <1>10, <1>11, <1>12, <1>13 DEF LossUp
<1>15. firm' <= Len(pushed')
  BY <1>3, <1>10, <1>12
<1>16. LossInv'
  BY <1>1, <1>2, <1>14, <1>15 DEF LossInv
<1> QED
  BY <1>6, <1>9, <1>16

(* Every step, when no write fails.                                        *)
LEMMA StepLoss ==
  ASSUME LossInv, "io" \notin Faults, [Next]_vars
  PROVE  LossInv'
<1>1. Inv'
  BY StepInv DEF LossInv
<1>2. CASE \E v \in Lines : PushLine(v)
  BY <1>2, PushLoss
<1>3. CASE ReadDisk \/ Checkpoint
  BY <1>1, <1>3, FlushLoss DEF ReadDisk, Checkpoint
<1>4. CASE Shutdown
  BY <1>4, ShutdownLoss
<1>5. CASE Kill
  BY <1>5, KillLoss
<1>6. CASE Reopen
  BY <1>6, ReopenLoss
<1>7. CASE \E v \in Lines : KilledPush(v)
  BY <1>7, KilledInPushLoss
<1>8. CASE UNCHANGED vars
  BY <1>1, <1>8 DEF vars, LossInv, LossUp, StoredTo
<1> QED
  BY <1>2, <1>3, <1>4, <1>5, <1>6, <1>7, <1>8 DEF Next, KilledPush

(* A kill, wherever it falls in push_line or in a flush, costs the lines   *)
(* in RAM and fewer than SyncEvery of the others: a reopen counts every    *)
(* line that a flush or a read has handed to the system, and reads back    *)
(* each of those that was appended where the files really ended.           *)
THEOREM LossIsBounded ==
  ASSUME "io" \notin Faults
  PROVE  Spec => LossBounded
<1>1. Init => LossInv
  <2>1. Init => Inv
    BY InitInv
  <2>2. Init => firm = 0 /\ pushed = << >> /\ aligned = 0 /\ up = FALSE
    BY DEF Init
  <2> QED
    BY <2>1, <2>2 DEF LossInv, StoredTo, Lesser
<1>2. LossInv /\ [Next]_vars => LossInv'
  BY StepLoss
<1>3. ASSUME LossInv, LossInv', [Next]_vars
      PROVE  [/\ Reopen =>
                   /\ disk'.count >= firm
                   /\ \A id \in 0..Lesser(firm, aligned) - 1 :
                        Returns(disk', id, pushed[id + 1])
              /\ up' => disk'.count - firm' < SyncEvery]_vars
  <2>1. ASSUME Reopen
        PROVE  /\ disk'.count >= firm
               /\ \A id \in 0..Lesser(firm, aligned) - 1 : Returns(disk', id, pushed[id + 1])
    <3>1. firm \in Nat /\ disk'.count = firm
      BY <1>3, <2>1, ReopenInv DEF LossInv, Inv, TypeOK
    <3>2. \A id \in 0..Lesser(firm, aligned) - 1 : Returns(disk', id, pushed[id + 1])
      BY <1>3, <2>1, ReopenLoss
    <3> QED
      BY <3>1, <3>2
  <2>2. ASSUME up'
        PROVE  disk'.count - firm' < SyncEvery
    <3>1. disk'.count - firm' <= dirty' /\ dirty' \in 0..SyncEvery - 1 /\ firm' \in Nat
      BY <1>3, <2>2 DEF LossInv, Inv, UpInv, TypeOK
    <3>2. disk'.count \in Nat
      BY <1>3 DEF LossInv, Inv, TypeOK, DiskType
    <3> QED
      BY <3>1, <3>2, SyncAssumption
  <2> QED
    BY <2>1, <2>2
<1> QED
  BY <1>1, <1>2, <1>3, PTL DEF Spec, LossBounded
=============================================================================
