--------------------------- MODULE DiskCacheProofs ---------------------------
(***************************************************************************)
(* What the scrollback store keeps, for every line, buffer and file size   *)
(* and every number of appends and opens.  Whatever fails, the lines that  *)
(* were appended at the true end of both files read back while the handle  *)
(* is open (ReadInv).  If no write fails, those of them that were flushed  *)
(* survive kills, those that were fsynced survive power losses, and no     *)
(* recovery cuts or overwrites them (KeepInv).                             *)
(***************************************************************************)
EXTENDS DiskCache, DiskCacheOpsProofs

USE DEF IndexWords, HeaderWords

-----------------------------------------------------------------------------
(* The first f records are in the first n words of the index and end       *)
(* within the first m words of the cache file.                             *)
Recorded(d, f, m, n) ==
  3 * f <= n /\ \A id \in 0..f - 1 : EndOf(Entry(d.index.data, id)) <= m

(* Every record begins where each of the first a, if before it, has ended. *)
Ordered(d, a) ==
  \A id \in 0..a - 1, k \in Nat :
    id < k /\ 3 * k + 3 <= Len(d.index.data)
      => EndOf(Entry(d.index.data, id)) <= Entry(d.index.data, k).off

(* The handle believes the cache file to end behind each of the first a.   *)
EndsBehind(d, a) == \A id \in 0..a - 1 : EndOf(Entry(d.index.data, id)) <= d.off

Shows(d, l, a) == \A id \in 0..a - 1 : Returns(d, id, l[id + 1])
Holds(d, l, f) == \A id \in 0..f - 1 : Stored(d, id, l[id + 1])

(* The inductive invariant that holds whatever fails.                      *)
ReadInv ==
  /\ TypeOK
  /\ aligned \in Nat /\ aligned <= Len(log)
  /\ up => Len(log) <= disk.count /\ Shows(disk, log, aligned)

(* What it takes for flushed lines to survive: their records and words are *)
(* with the system, or fsynced; and no other record can make recover cut   *)
(* the cache file short of them, because records begin behind them.        *)
Safe(d, l, a, f, s) ==
  /\ Ordered(d, a)
  /\ Recorded(d, f, d.cache.os, d.index.os)
  /\ Recorded(d, s, d.cache.dur, d.index.dur)
  /\ Holds(d, l, f)

KeepInv ==
  /\ firm \in Nat /\ fsynced \in Nat /\ fsynced <= firm /\ firm <= aligned
  /\ Safe(disk, log, aligned, firm, fsynced)
  /\ up => /\ aligned > 0 => Len(disk.index.data) = 3 * disk.count
           /\ EndsBehind(disk, aligned)
  /\ ~up => /\ disk.cache.os = Len(disk.cache.data)
            /\ disk.index.os = Len(disk.index.data)

-----------------------------------------------------------------------------
(* What a handle shows, it shows after any call that only adds to the      *)
(* files, as long as the mapping, if kept, still sees what it saw.         *)
Grown(d, e) ==
  /\ DiskType(e)
  /\ StartsWith(e.cache.data, d.cache.data)
  /\ StartsWith(e.index.data, d.index.data)
  /\ d.count <= e.count
  /\ e.mmap = NoMmap \/ e.mmap = d.mmap \/ (d.mmap = NoMmap /\ e.mmap = Len(d.cache.data))

(* A line that is read is read from a cache that has grown, too.           *)
LEMMA GrownReturns ==
  ASSUME NEW d, DiskType(d), d.mmap <= Len(d.cache.data), NEW e, Grown(d, e),
         NEW id \in Nat, NEW v \in Lines, Returns(d, id, v)
  PROVE  Returns(e, id, v)
<1> DEFINE r == Entry(d.index.data, id)
<1>1. /\ DiskType(e)
      /\ Len(d.index.data) <= Len(e.index.data)
      /\ \A i \in 1..Len(d.index.data) : e.index.data[i] = d.index.data[i]
      /\ Len(d.cache.data) <= Len(e.cache.data)
      /\ \A i \in 1..Len(d.cache.data) : e.cache.data[i] = d.cache.data[i]
  BY DEF Grown, StartsWith
<1>2. id < d.count /\ Stored(d, id, v) /\ EndOf(r) <= Visible(d)
  BY ReturnsFacts
<1>3. /\ Len(d.index.data) \in Nat /\ Len(d.cache.data) \in Nat
      /\ Len(e.index.data) \in Nat /\ Len(e.cache.data) \in Nat
      /\ d.count \in Nat /\ e.count \in Nat
      /\ d.mmap \in Nat \cup {NoMmap} /\ e.mmap \in Nat \cup {NoMmap}
  BY <1>1, DiskData, DiskFields
<1>4. 3 * id + 3 <= Len(d.index.data) /\ EndOf(r) <= Len(d.cache.data)
  BY <1>2 DEF Stored
<1>5. EndOf(r) \in Nat
  BY <1>4, DiskData, EntryFacts
<1> HIDE DEF r
<1>6. Stored(e, id, v) /\ Entry(e.index.data, id) = r
  <2> DEFINE n == Len(d.index.data)
             m == Len(d.cache.data)
  <2>1. /\ n \in Nat /\ 3 * id + 3 <= n /\ n <= Len(d.index.data) /\ n <= Len(e.index.data)
        /\ \A i \in 1..n : e.index.data[i] = d.index.data[i]
    <3>1. n \in Nat /\ 3 * id + 3 <= n /\ n <= Len(d.index.data)
      BY <1>3, <1>4
    <3> QED
      BY <1>1, <3>1
  <2>2. /\ m \in Nat /\ EndOf(r) <= m /\ m <= Len(d.cache.data) /\ m <= Len(e.cache.data)
        /\ \A i \in 1..m : e.cache.data[i] = d.cache.data[i]
    BY <1>1, <1>3, <1>4
  <2> HIDE DEF n, m
  <2> QED
    BY <1>1, <1>2, <2>1, <2>2, StoredStays DEF r
<1>7. e.mmap <= Len(e.cache.data) /\ EndOf(r) <= Visible(e)
  <2>1. e.mmap = NoMmap \/ e.mmap = d.mmap \/ (d.mmap = NoMmap /\ e.mmap = Len(d.cache.data))
    BY DEF Grown
  <2>2. Len(d.cache.data) <= Len(e.cache.data)
    BY <1>1
  <2> QED
    BY <1>2, <1>3, <1>4, <1>5, <2>1, <2>2, SMTT(30) DEF Visible, NoMmap
<1>8. id < e.count
  <2>1. d.count <= e.count
    BY DEF Grown
  <2> QED
    BY <1>2, <1>3, <2>1
<1> QED
  BY <1>1, <1>6, <1>7, <1>8, ReturnsFacts

(* So are the first a lines of a log.                                      *)
LEMMA GrownShows ==
  ASSUME NEW d, DiskType(d), d.mmap <= Len(d.cache.data), NEW e, Grown(d, e),
         NEW a \in Nat, NEW l \in Seq(Lines), a <= Len(l), Shows(d, l, a)
  PROVE  Shows(e, l, a)
<1> SUFFICES ASSUME NEW id \in 0..a - 1
             PROVE  Returns(e, id, l[id + 1])
  BY DEF Shows
<1>1. id \in Nat /\ l[id + 1] \in Lines
  OBVIOUS
<1>2. Returns(d, id, l[id + 1])
  BY DEF Shows
<1> QED
  BY <1>1, <1>2, GrownReturns

(* A cache with the same words has grown, also when it is mapped anew.     *)
LEMMA SameGrown ==
  ASSUME NEW d, DiskType(d), NEW e, DiskType(e),
         e.cache.data = d.cache.data, e.index.data = d.index.data, e.count = d.count,
         e.mmap = d.mmap \/ (d.mmap = NoMmap /\ e.mmap = Len(d.cache.data))
  PROVE  Grown(d, e)
BY DiskData, DiskFields DEF Grown, StartsWith

(* append_line, whole or stopped by a failure, only adds to the files.     *)
LEMMA AppendGrows ==
  ASSUME NEW d, DiskType(d), NEW v \in Lines
  PROVE  /\ \A k \in 0..3 : Grown(d, AppendWrites(d, v, k))
         /\ Grown(d, AppendLine(d, v))
<1>1. ASSUME NEW k \in 0..4
      PROVE  LET a == AppendWrites(d, v, k)
             IN /\ DiskType(a) /\ a.count = d.count /\ a.mmap = d.mmap
                /\ StartsWith(a.cache.data, d.cache.data)
                /\ StartsWith(a.index.data, d.index.data)
  BY AppendWritesFacts, AppendContent
<1>2. d.count \in Nat
  BY DiskFields
<1>3. \A k \in 0..3 : Grown(d, AppendWrites(d, v, k))
  <2> SUFFICES ASSUME NEW k \in 0..3
               PROVE  Grown(d, AppendWrites(d, v, k))
    OBVIOUS
  <2>1. k \in 0..4
    OBVIOUS
  <2> QED
    BY <1>1, <1>2, <2>1 DEF Grown
<1>4. Grown(d, AppendLine(d, v))
  <2>1. 4 \in 0..4
    OBVIOUS
  <2>2. /\ StartsWith(AppendWrites(d, v, 4).cache.data, d.cache.data)
        /\ StartsWith(AppendWrites(d, v, 4).index.data, d.index.data)
    BY <1>1, <2>1
  <2> QED
    BY <1>2, <2>2, AppendLineFacts DEF Grown
<1> QED
  BY <1>3, <1>4

-----------------------------------------------------------------------------
(* How many lines a handle shows.                                          *)

(* A set of numbers that is not empty has a least one.                     *)
LEMMA LeastNumber ==
  ASSUME NEW S \in SUBSET Nat, S # {}
  PROVE  \E k \in S : \A j \in S : k <= j
<1> DEFINE less == {p \in Nat \X Nat : p[1] < p[2]}
<1>1. IsWellFoundedOn(less, Nat)
  BY NatLessThanWellFounded DEF OpToRel
<1>2. PICK k \in S : \A j \in S : <<j, k>> \notin less
  <2> HIDE DEF less
  <2> QED
    BY <1>1, WFMin
<1>3. \A j \in S : k <= j
  <2> TAKE j \in S
  <2>1. <<j, k>> \in Nat \X Nat /\ <<j, k>>[1] = j /\ <<j, k>>[2] = k
    OBVIOUS
  <2>2. ~(j < k)
    BY <2>1, <1>2
  <2> QED
    BY <2>2
<1> QED
  BY <1>3

(* Who shows a lines shows the first b of them.                            *)
LEMMA ShowsLess ==
  ASSUME NEW d, NEW l, NEW a \in Nat, NEW b \in 0..a, Shows(d, l, a)
  PROVE  Shows(d, l, b)
<1>1. 0..b - 1 \subseteq 0..a - 1
  OBVIOUS
<1> QED
  BY <1>1 DEF Shows

(* Whole is the greatest number of leading lines that are shown.           *)
LEMMA WholeFacts ==
  ASSUME NEW d, NEW l, NEW n \in Nat
  PROVE  /\ Whole(d, l, n) \in 0..n
         /\ Shows(d, l, Whole(d, l, n))
         /\ \A f \in 0..n : Shows(d, l, f) => f <= Whole(d, l, n)
<1> DEFINE good == {m \in 1..n : Shows(d, l, m)}
           bad == {m \in 1..n : ~Shows(d, l, m)}
<1>1. Whole(d, l, n) = Cardinality(good)
  BY DEF Whole, Shows
<1>2. Shows(d, l, 0)
  BY DEF Shows
<1>3. \E w \in 0..n : good = 1..w /\ Shows(d, l, w)
  <2>1. CASE bad = {}
    <3>1. good = 1..n
      BY <2>1
    <3>2. Shows(d, l, n)
      <4>1. n = 0 \/ n \in 1..n
        OBVIOUS
      <4> QED
        BY <1>2, <3>1, <4>1
    <3>3. n \in 0..n
      OBVIOUS
    <3> QED
      BY <3>1, <3>2, <3>3
  <2>2. CASE bad # {}
    <3>1. PICK k \in bad : \A j \in bad : k <= j
      <4>1. bad \in SUBSET Nat
        OBVIOUS
      <4> HIDE DEF bad
      <4> QED
        BY <2>2, <4>1, LeastNumber
    <3>2. k \in 1..n /\ ~Shows(d, l, k)
      OBVIOUS
    <3>3. \A m \in 1..k - 1 : Shows(d, l, m)
      <4> SUFFICES ASSUME NEW m \in 1..k - 1, ~Shows(d, l, m)
                   PROVE  FALSE
        OBVIOUS
      <4>1. m \in 1..n /\ ~(k <= m)
        BY <3>2
      <4> QED
        BY <3>1, <4>1
    <3>4. \A m \in k..n : ~Shows(d, l, m)
      <4> SUFFICES ASSUME NEW m \in k..n, Shows(d, l, m)
                   PROVE  FALSE
        OBVIOUS
      <4>1. m \in Nat /\ k \in 0..m
        BY <3>2
      <4> QED
        BY <3>2, <4>1, ShowsLess
    <3>5. good = 1..k - 1
      <4> SUFFICES ASSUME NEW m \in 1..n
                   PROVE  Shows(d, l, m) <=> m \in 1..k - 1
        BY <3>2
      <4>1. m \in 1..k - 1 \/ m \in k..n
        BY <3>2
      <4>2. m \in k..n => m \notin 1..k - 1
        BY <3>2
      <4> QED
        BY <3>3, <3>4, <4>1, <4>2
    <3>6. Shows(d, l, k - 1)
      <4>1. k - 1 = 0 \/ k - 1 \in 1..k - 1
        BY <3>2
      <4> QED
        BY <1>2, <3>3, <4>1
    <3>7. k - 1 \in 0..n
      BY <3>2
    <3> QED
      BY <3>5, <3>6, <3>7
  <2> QED
    BY <2>1, <2>2
<1>4. PICK w \in 0..n : good = 1..w /\ Shows(d, l, w)
  BY <1>3
<1>5. Whole(d, l, n) = w
  <2>1. Cardinality(1..w) = w
    BY FS_Interval
  <2> QED
    BY <1>1, <1>4, <2>1
<1>6. ASSUME NEW f \in 0..n, Shows(d, l, f)
      PROVE  f <= w
  <2>1. CASE f = 0
    BY <2>1
  <2>2. CASE f # 0
    <3>1. f \in good
      BY <1>6, <2>2
    <3> QED
      BY <1>4, <3>1
  <2> QED
    BY <2>1, <2>2
<1> QED
  BY <1>4, <1>5, <1>6

-----------------------------------------------------------------------------
(* Lines read back, whatever fails.                                        *)

(* A mapping that is kept lies within the file.                            *)
LEMMA MmapInFile ==
  ASSUME ReadInv
  PROVE  DiskType(disk) /\ disk.mmap <= Len(disk.cache.data)
<1>1. DiskType(disk) /\ disk.mmap <= disk.cache.os
  BY DEF ReadInv, TypeOK
<1>2. /\ disk.cache.os \in 0..Len(disk.cache.data) /\ Len(disk.cache.data) \in Nat
      /\ disk.mmap \in Nat \cup {NoMmap}
  BY <1>1, DiskData, DiskFields
<1> QED
  BY <1>1, <1>2 DEF NoMmap

(* Two new files.                                                          *)
LEMMA InitReadInv ==
  Init => ReadInv
<1> SUFFICES ASSUME Init
             PROVE  ReadInv
  OBVIOUS
<1> DEFINE z == EmptyStream
<1>1. StreamType(z, CacheWord) /\ StreamType(z, Nat) /\ z.os = 0 /\ Len(z.data) = 0
  BY DEF EmptyStream, StreamType
<1>2. disk = Disk(z, z, 0, 0, NoMmap)
  BY DEF Init, NewCache, Closed, Opened
<1> HIDE DEF z
<1>3. 0 \in Nat /\ NoMmap \in Nat \cup {NoMmap} /\ NoMmap <= 0
  BY DEF NoMmap
<1>4. DiskType(Disk(z, z, 0, 0, NoMmap))
  BY <1>1, <1>3, DiskHasType
<1>5. DiskType(disk) /\ disk.cache = z /\ disk.mmap = NoMmap
  BY <1>2, <1>4, DiskParts
<1>6. 0 \in 0..MaxAppends /\ 0 \in 0..MaxOpens
  BY BoundsAssumption
<1>7. /\ log = << >> /\ aligned = 0 /\ appends = 0 /\ opens = 0 /\ up = FALSE
  BY DEF Init
<1>8. log \in Seq(Lines) /\ Len(log) = 0 /\ 0 <= 0
  BY <1>7
<1>9. disk.mmap <= disk.cache.os
  BY <1>1, <1>3, <1>5
<1>10. TypeOK
  BY <1>5, <1>6, <1>7, <1>8, <1>9 DEF TypeOK
<1> QED
  BY <1>7, <1>8, <1>10 DEF ReadInv

(* Any call on an open handle that only adds to the files and appends no   *)
(* line, and any that closes it.                                           *)
LEMMA CallReadInv ==
  ASSUME ReadInv, up, up' = up, Grown(disk, disk'), disk'.mmap <= disk'.cache.os,
         appends' \in 0..MaxAppends, UNCHANGED <<log, aligned, opens>>
  PROVE  ReadInv'
<1>1. /\ DiskType(disk) /\ disk.mmap <= Len(disk.cache.data)
      /\ DiskType(disk') /\ disk.count <= disk'.count
  BY MmapInFile DEF Grown
<1>2. /\ log \in Seq(Lines) /\ Len(log) \in Nat /\ aligned \in Nat /\ aligned <= Len(log)
      /\ Len(log) <= disk.count /\ Shows(disk, log, aligned) /\ opens \in 0..MaxOpens
  BY DEF ReadInv, TypeOK
<1>3. Shows(disk', log, aligned)
  BY <1>1, <1>2, GrownShows
<1>4. Len(log) <= disk'.count
  <2>1. disk.count \in Nat /\ disk'.count \in Nat
    BY <1>1, DiskFields
  <2> QED
    BY <1>1, <1>2, <2>1
<1> QED
  BY <1>1, <1>2, <1>3, <1>4 DEF ReadInv, TypeOK

(* A handle that is gone shows nothing, and owes nothing.                  *)
LEMMA CloseReadInv ==
  ASSUME ReadInv, up' = FALSE, DiskType(disk'), disk'.mmap = NoMmap,
         UNCHANGED <<log, aligned, appends, opens>>
  PROVE  ReadInv'
<1>1. disk'.mmap <= disk'.cache.os
  <2>1. disk'.cache.os \in 0..Len(disk'.cache.data)
    BY DiskData
  <2> QED
    BY <2>1 DEF NoMmap
<1> QED
  BY <1>1 DEF ReadInv, TypeOK

(* append_line shows the lines it showed, and the new one.                 *)
LEMMA AppendReadInv ==
  ASSUME ReadInv, NEW v \in Lines, Append_(v)
  PROVE  ReadInv'
<1>1. /\ up /\ up' = up /\ appends < MaxAppends /\ appends' = appends + 1
      /\ disk' = AppendLine(disk, v) /\ log' = Append(log, v)
      /\ aligned' = IF aligned = disk.count /\ EndsAgree(disk) THEN aligned + 1 ELSE aligned
      /\ opens' = opens
  BY DEF Append_, AppendCall
<1>2. /\ DiskType(disk) /\ disk.mmap <= Len(disk.cache.data)
      /\ DiskType(disk') /\ disk'.mmap = NoMmap /\ disk'.count = disk.count + 1
      /\ Grown(disk, disk')
  BY <1>1, MmapInFile, AppendLineFacts, AppendGrows
<1>3. /\ log \in Seq(Lines) /\ Len(log) \in Nat /\ aligned \in Nat /\ aligned <= Len(log)
      /\ Len(log) <= disk.count /\ Shows(disk, log, aligned) /\ opens \in 0..MaxOpens
      /\ appends \in 0..MaxAppends /\ disk.count \in Nat
  BY <1>1, <1>2, DiskFields DEF ReadInv, TypeOK
<1>4. /\ log' \in Seq(Lines) /\ Len(log') = Len(log) + 1
      /\ \A i \in 1..Len(log) : log'[i] = log[i]
      /\ log'[Len(log) + 1] = v
  BY <1>1, <1>3, AppendProperties
<1>5. disk'.mmap <= disk'.cache.os
  <2>1. disk'.cache.os \in 0..Len(disk'.cache.data)
    BY <1>2, DiskData
  <2> QED
    BY <1>2, <2>1 DEF NoMmap
<1>6. Shows(disk', log, aligned)
  BY <1>2, <1>3, GrownShows
<1>7. Shows(disk', log', aligned)
  <2> SUFFICES ASSUME NEW id \in 0..aligned - 1
               PROVE  Returns(disk', id, log'[id + 1])
    BY DEF Shows
  <2>1. id + 1 \in 1..Len(log)
    BY <1>3
  <2>2. log'[id + 1] = log[id + 1]
    BY <1>4, <2>1
  <2>3. Returns(disk', id, log[id + 1])
    BY <1>6 DEF Shows
  <2> QED
    BY <2>2, <2>3
<1>8. /\ aligned' \in Nat /\ aligned' <= Len(log') /\ Shows(disk', log', aligned')
  <2>1. CASE aligned = disk.count /\ EndsAgree(disk)
    <3>1. aligned' = aligned + 1 /\ aligned = Len(log)
      BY <1>1, <1>3, <2>1
    <3>2. Returns(disk', aligned, v)
      BY <1>1, <1>2, <2>1, AppendShows DEF EndsAgree
    <3>3. Shows(disk', log', aligned')
      <4> SUFFICES ASSUME NEW id \in 0..aligned' - 1
                   PROVE  Returns(disk', id, log'[id + 1])
        BY DEF Shows
      <4>1. id \in 0..aligned - 1 \/ id = aligned
        BY <1>3, <3>1
      <4> QED
        BY <1>4, <1>7, <3>1, <3>2, <4>1 DEF Shows
    <3> QED
      BY <1>3, <1>4, <3>1, <3>3
  <2>2. CASE ~(aligned = disk.count /\ EndsAgree(disk))
    <3>1. aligned' = aligned
      BY <1>1, <2>2
    <3> QED
      BY <1>3, <1>4, <1>7, <3>1
  <2> QED
    BY <2>1, <2>2
<1>9. Len(log') <= disk'.count /\ appends' \in 0..MaxAppends
  BY <1>1, <1>2, <1>3, <1>4, BoundsAssumption
<1> QED
  BY <1>1, <1>2, <1>3, <1>4, <1>5, <1>8, <1>9 DEF ReadInv, TypeOK

(* A flush, a sync or a read adds nothing to the files, and what is mapped *)
(* then is with the system.                                                *)
LEMMA FlushedGrown ==
  ASSUME ReadInv, up, NEW e \in {Flush(disk), Sync(disk), AfterRead(disk)}
  PROVE  Grown(disk, e) /\ e.mmap <= e.cache.os
<1>1. DiskType(disk) /\ disk.mmap <= Len(disk.cache.data) /\ disk.mmap \in Nat \cup {NoMmap}
  BY MmapInFile, DiskFields
<1>2. /\ DiskType(e) /\ e.count = disk.count
      /\ e.cache.data = disk.cache.data /\ e.cache.os = Len(disk.cache.data)
      /\ e.index.data = disk.index.data
  BY <1>1, FlushFacts
<1>3. e.mmap = disk.mmap \/ (disk.mmap = NoMmap /\ e.mmap = Len(disk.cache.data))
  <2>1. CASE e = Flush(disk)
    BY <2>1 DEF Flush, Disk
  <2>2. CASE e = Sync(disk)
    BY <2>2 DEF Sync, Flush, Disk
  <2>3. CASE e = AfterRead(disk)
    <3>1. Flush(disk).cache.os = Len(disk.cache.data)
      BY <1>1, FlushFacts
    <3>2. e.mmap = IF disk.mmap = NoMmap THEN Flush(disk).cache.os ELSE disk.mmap
      BY <2>3, DiskParts DEF AfterRead
    <3> QED
      BY <3>1, <3>2
  <2> QED
    BY <2>1, <2>2, <2>3
<1>4. Grown(disk, e)
  BY <1>1, <1>2, <1>3, SameGrown
<1>5. Len(disk.cache.data) \in Nat
  BY <1>1, DiskData
<1> QED
  BY <1>1, <1>2, <1>3, <1>4, <1>5

(* A call that failed half way.                                            *)
LEMMA FailedGrown ==
  ASSUME ReadInv, up,
         \/ \E v \in Lines, k \in 0..3 : disk' = AppendWrites(disk, v, k)
         \/ disk' \in FlushFailures(disk)
  PROVE  Grown(disk, disk') /\ disk'.mmap <= disk'.cache.os
<1>1. /\ DiskType(disk) /\ disk.mmap <= disk.cache.os /\ disk.mmap \in Nat \cup {NoMmap}
      /\ disk.cache.os \in 0..Len(disk.cache.data)
  BY MmapInFile, DiskData, DiskFields DEF ReadInv, TypeOK
<1>2. /\ Grown(disk, disk') /\ disk'.mmap = disk.mmap /\ disk.cache.os <= disk'.cache.os
  <2>1. CASE \E v \in Lines, k \in 0..3 : disk' = AppendWrites(disk, v, k)
    <3>1. PICK v \in Lines, k \in 0..3 : disk' = AppendWrites(disk, v, k)
      BY <2>1
    <3>2. k \in 0..4
      OBVIOUS
    <3>3. /\ AppendWrites(disk, v, k).mmap = disk.mmap
          /\ disk.cache.os <= AppendWrites(disk, v, k).cache.os
      BY <1>1, <3>2, AppendWritesFacts
    <3> QED
      BY <1>1, <3>1, <3>3, AppendGrows
  <2>2. CASE disk' \in FlushFailures(disk)
    <3>1. disk' \in FlushFailures(disk) \cup {[disk EXCEPT !.index = FlushStream(@)]}
      BY <2>2
    <3>2. /\ DiskType(disk') /\ disk'.count = disk.count /\ disk'.mmap = disk.mmap
          /\ disk'.cache.data = disk.cache.data /\ disk'.index.data = disk.index.data
          /\ disk.cache.os <= disk'.cache.os
      BY <1>1, <3>1, HalfFlushFacts
    <3> QED
      BY <1>1, <3>2, SameGrown
  <2> QED
    BY <2>1, <2>2
<1>3. disk'.cache.os \in Nat
  BY <1>2, DiskData DEF Grown
<1> QED
  BY <1>1, <1>2, <1>3 DEF NoMmap

(* Drop, a kill and a power loss leave files of the right type, and no     *)
(* mapping.                                                                *)
LEMMA CloseIsClosed ==
  ASSUME ReadInv, Drop \/ Kill \/ PowerLoss
  PROVE  DiskType(disk') /\ disk'.mmap = NoMmap
<1>1. DiskType(disk)
  BY MmapInFile
<1>2. CASE Drop
  <2>1. DiskType(Flush(disk))
    BY <1>1, FlushFacts
  <2>2. \/ disk' = Killed(Flush(disk))
        \/ \E f \in FlushFailures(disk) \cup {[disk EXCEPT !.index = FlushStream(@)]} :
             disk' = Killed(f)
    BY <1>2 DEF Drop
  <2>3. PICK f : DiskType(f) /\ disk' = Killed(f)
    BY <1>1, <2>1, <2>2, HalfFlushFacts
  <2> QED
    BY <2>3, KilledParts
<1>3. CASE Kill
  <2>1. \/ disk' = Killed(disk)
        \/ disk' = Killed(HalfFlushed(disk))
        \/ \E v \in Lines, k \in 1..4 : disk' = Killed(AppendWrites(disk, v, k))
    BY <1>3 DEF Kill
  <2>2. ASSUME NEW v \in Lines, NEW k \in 1..4
        PROVE  DiskType(AppendWrites(disk, v, k))
    <3>1. k \in 0..4
      OBVIOUS
    <3> QED
      BY <1>1, <3>1, AppendWritesFacts
  <2>3. DiskType(HalfFlushed(disk))
    BY <1>1, HalfFlushedFacts
  <2>4. PICK f : DiskType(f) /\ disk' = Killed(f)
    BY <1>1, <2>1, <2>2, <2>3
  <2> QED
    BY <2>4, KilledParts
<1>4. CASE PowerLoss
  <2>1. PICK m \in disk.cache.dur .. disk.cache.os, n \in disk.index.dur .. disk.index.os :
           disk' = Closed(Survives(disk.cache, m), Survives(disk.index, n))
    BY <1>4 DEF PowerLoss, PowerLosses
  <2>2. /\ disk.cache.os \in 0..Len(disk.cache.data) /\ disk.cache.dur \in 0..disk.cache.os
        /\ disk.index.os \in 0..Len(disk.index.data) /\ disk.index.dur \in 0..disk.index.os
        /\ Len(disk.cache.data) \in Nat /\ Len(disk.index.data) \in Nat
    BY <1>1, DiskData
  <2>3. m \in 0..Len(disk.cache.data) /\ n \in 0..Len(disk.index.data)
    BY <2>2, SMTT(30)
  <2> QED
    BY <1>1, <2>1, <2>3, ClosedFacts
<1> QED
  BY <1>2, <1>3, <1>4

(* The lesser of two numbers is one of them.                               *)
LEMMA LesserFacts ==
  ASSUME NEW m \in Nat, NEW n \in Nat
  PROVE  Lesser(m, n) \in Nat /\ Lesser(m, n) <= m /\ Lesser(m, n) <= n
                       /\ (Lesser(m, n) = m \/ Lesser(m, n) = n)
BY DEF Lesser

(* open forgets the ids it does not count and keeps the others.            *)
LEMMA OpenedLog ==
  ASSUME ReadInv, NEW n \in Nat, log' = SubSeq(log, 1, Lesser(Len(log), n))
  PROVE  /\ log' \in Seq(Lines) /\ Len(log') = Lesser(Len(log), n)
         /\ \A i \in 1..Lesser(Len(log), n) : log'[i] = log[i]
<1> DEFINE m == Lesser(Len(log), n)
<1>1. log \in Seq(Lines) /\ Len(log) \in Nat
  BY DEF ReadInv, TypeOK
<1>2. m \in 0..Len(log)
  BY <1>1, LesserFacts
<1> HIDE DEF m
<1>3. SubSeq(log, 1, m) \in Seq(Lines) /\ Len(SubSeq(log, 1, m)) = m
      /\ \A i \in 1..m : SubSeq(log, 1, m)[i] = log[i]
  BY <1>1, <1>2
<1> QED
  BY <1>3 DEF m

(* An open begins with the lines it can show.                              *)
LEMMA ReopenReadInv ==
  ASSUME ReadInv, Reopen
  PROVE  ReadInv'
<1>1. /\ ~up /\ opens < MaxOpens /\ opens' = opens + 1 /\ appends' = appends
      /\ \/ up' = TRUE /\ disk' = Open(disk)
         \/ up' = FALSE /\ OpenCuts(disk) /\ disk' = AfterFailedOpen(disk)
      /\ log' = IF up' THEN SubSeq(log, 1, Lesser(Len(log), disk'.count)) ELSE log
      /\ aligned' = IF up' THEN Whole(disk', log, Lesser(aligned, disk'.count)) ELSE aligned
  BY DEF Reopen, OpenFails
<1>2. /\ DiskType(disk) /\ disk.mmap <= disk.cache.os
      /\ log \in Seq(Lines) /\ Len(log) \in Nat /\ aligned \in Nat /\ aligned <= Len(log)
      /\ appends \in 0..MaxAppends /\ opens \in 0..MaxOpens
  BY DEF ReadInv, TypeOK
<1>3. opens' \in 0..MaxOpens
  BY <1>1, <1>2, BoundsAssumption
<1>4. CASE up' = TRUE /\ disk' = Open(disk)
  <2>1. DiskType(disk') /\ disk'.mmap = NoMmap /\ disk'.count \in Nat
    BY <1>2, <1>4, OpenKeeps, OpenParts
  <2>2. PICK n \in Nat : n = disk'.count
    BY <2>1
  <2>3. disk'.mmap <= disk'.cache.os
    <3>1. disk'.cache.os \in 0..Len(disk'.cache.data)
      BY <2>1, DiskData
    <3> QED
      BY <2>1, <3>1 DEF NoMmap
  <2>4. log' = SubSeq(log, 1, Lesser(Len(log), n))
    BY <1>1, <1>4, <2>2
  <2>5. /\ log' \in Seq(Lines) /\ Len(log') = Lesser(Len(log), n)
        /\ \A i \in 1..Lesser(Len(log), n) : log'[i] = log[i]
    BY <2>4, OpenedLog
  <2> DEFINE w == Whole(disk', log, Lesser(aligned, n))
  <2>6. Lesser(aligned, n) \in Nat /\ Lesser(aligned, n) <= aligned /\ Lesser(aligned, n) <= n
    BY <1>2, LesserFacts
  <2>7. w \in 0..Lesser(aligned, n) /\ Shows(disk', log, w)
    BY <2>6, WholeFacts
  <2>8. aligned' = w
    BY <1>1, <1>4, <2>2
  <2> HIDE DEF w
  <2>9. w \in Nat /\ w <= Lesser(Len(log), n)
    BY <1>2, <2>6, <2>7 DEF Lesser
  <2>10. Shows(disk', log', aligned')
    <3> SUFFICES ASSUME NEW id \in 0..aligned' - 1
                 PROVE  Returns(disk', id, log'[id + 1])
      BY DEF Shows
    <3>1. id \in 0..w - 1 /\ id + 1 \in 1..Lesser(Len(log), n)
      <4>1. Lesser(Len(log), n) \in Nat
        BY <1>2, LesserFacts
      <4> QED
        BY <2>8, <2>9, <4>1
    <3>2. Returns(disk', id, log[id + 1])
      BY <2>7, <3>1 DEF Shows
    <3> QED
      BY <2>5, <3>1, <3>2
  <2>11. aligned' \in Nat /\ aligned' <= Len(log') /\ Len(log') <= disk'.count
    BY <1>2, <2>2, <2>5, <2>8, <2>9, LesserFacts, ZenonT(60)
  <2> QED
    BY <1>1, <1>2, <1>3, <1>4, <2>1, <2>3, <2>5, <2>10, <2>11 DEF ReadInv, TypeOK
<1>5. CASE up' = FALSE /\ OpenCuts(disk) /\ disk' = AfterFailedOpen(disk)
  <2>1. DiskType(disk') /\ disk'.mmap = disk.mmap /\ disk'.cache = disk.cache
    BY <1>2, <1>5, FailedOpenFacts
  <2> QED
    BY <1>1, <1>2, <1>3, <1>5, <2>1 DEF ReadInv, TypeOK
<1> QED
  BY <1>1, <1>4, <1>5

(* Every call and every fault keeps what is shown.                         *)
LEMMA StepReadInv ==
  ASSUME ReadInv, [Next]_vars
  PROVE  ReadInv'
<1>1. CASE \E v \in Lines : Append_(v)
  BY <1>1, AppendReadInv
<1>2. CASE \E v \in Lines : AppendFails(v)
  <2>1. /\ up /\ up' = up /\ appends' = appends + 1 /\ appends < MaxAppends
        /\ UNCHANGED <<log, aligned, opens>>
        /\ \E v \in Lines, k \in 0..3 : disk' = AppendWrites(disk, v, k)
    BY <1>2 DEF AppendFails, AppendCall
  <2>2. appends' \in 0..MaxAppends
    BY <2>1, BoundsAssumption DEF ReadInv, TypeOK
  <2> QED
    BY <2>1, <2>2, FailedGrown, CallReadInv
<1>3. CASE FlushOp
  BY <1>3, FlushedGrown, CallReadInv DEF FlushOp, ReadInv, TypeOK
<1>4. CASE FlushFails
  BY <1>4, FailedGrown, CallReadInv DEF FlushFails, ReadInv, TypeOK
<1>5. CASE SyncOp
  BY <1>5, FlushedGrown, CallReadInv DEF SyncOp, ReadInv, TypeOK
<1>6. CASE \E id \in 0..disk.count - 1 : ReadOp(id)
  BY <1>6, FlushedGrown, CallReadInv DEF ReadOp, ReadInv, TypeOK
<1>7. CASE Drop
  BY <1>7, CloseIsClosed, CloseReadInv DEF Drop
<1>8. CASE Kill
  BY <1>8, CloseIsClosed, CloseReadInv DEF Kill
<1>9. CASE PowerLoss
  BY <1>9, CloseIsClosed, CloseReadInv DEF PowerLoss
<1>10. CASE Reopen
  BY <1>10, ReopenReadInv
<1>11. CASE UNCHANGED vars
  BY <1>11 DEF vars, ReadInv, TypeOK, Shows
<1> QED
  BY <1>1, <1>2, <1>3, <1>4, <1>5, <1>6, <1>7, <1>8, <1>9, <1>10, <1>11 DEF Next

(* So it holds for ever.                                                   *)
LEMMA SpecReadInv ==
  Spec => []ReadInv
<1>1. Init => ReadInv
  BY InitReadInv
<1>2. ReadInv /\ [Next]_vars => ReadInv'
  BY StepReadInv
<1> QED
  BY <1>1, <1>2, PTL DEF Spec

(* Whatever fails and however the files are cut: nothing is fsynced that   *)
(* was not handed to the system, nothing handed over that was not written, *)
(* and nothing mapped that is not in the file (struct DiskCache).          *)
THEOREM StoreTypeCorrect ==
  Spec => []TypeOK
<1>1. ReadInv => TypeOK
  BY DEF ReadInv
<1> QED
  BY <1>1, SpecReadInv, PTL

(* Whatever fails, a line appended at the true end of both files reads     *)
(* back through the buffers, a mapping kept from an earlier read, failed   *)
(* appends and flushes and every later open (read_line, ensure_mmap).      *)
THEOREM AppendedLinesReadBack ==
  Spec => []LinesReadBack
<1>1. ASSUME ReadInv
      PROVE  LinesReadBack
  <2> SUFFICES ASSUME up
               PROVE  aligned <= disk.count /\ Shows(disk, log, aligned)
    BY DEF LinesReadBack, Shows
  <2>1. /\ aligned \in Nat /\ aligned <= Len(log) /\ Len(log) <= disk.count
        /\ Len(log) \in Nat /\ disk.count \in Nat /\ Shows(disk, log, aligned)
    BY <1>1, DiskFields DEF ReadInv, TypeOK
  <2> QED
    BY <2>1
<1> QED
  BY <1>1, SpecReadInv, PTL

-----------------------------------------------------------------------------
(* Flushed lines survive, if no write fails.                               *)

(* Records are recorded in a file that begins with the same words.         *)
LEMMA RecordedSame ==
  ASSUME NEW d, NEW e, NEW f \in Nat, NEW m, NEW n, Recorded(d, f, m, n),
         \A i \in 1..3 * f : e.index.data[i] = d.index.data[i],
         NEW o, 3 * f <= o
  PROVE  Recorded(e, f, m, o)
<1> SUFFICES ASSUME NEW id \in 0..f - 1
             PROVE  EndOf(Entry(e.index.data, id)) <= m
  BY DEF Recorded
<1>1. id \in Nat /\ 3 * f \in Nat /\ 3 * id + 3 <= 3 * f
  OBVIOUS
<1>2. Entry(e.index.data, id) = Entry(d.index.data, id)
  BY <1>1, EntryStable, SMTT(30)
<1> QED
  BY <1>2 DEF Recorded

(* They stay so when more reaches the system.                              *)
LEMMA RecordedMore ==
  ASSUME NEW d, DiskType(d), NEW f \in Nat, NEW m \in Nat, NEW n \in Nat,
         n <= Len(d.index.data), Recorded(d, f, m, n),
         NEW p \in Nat, m <= p, NEW o \in Nat, n <= o
  PROVE  Recorded(d, f, p, o)
<1>1. 3 * f <= n /\ 3 * f <= o
  BY DEF Recorded
<1> SUFFICES ASSUME NEW id \in 0..f - 1
             PROVE  EndOf(Entry(d.index.data, id)) <= p
  BY <1>1 DEF Recorded
<1>2. EndOf(Entry(d.index.data, id)) <= m
  BY DEF Recorded
<1>3. EndOf(Entry(d.index.data, id)) \in Nat
  <2>1. id \in Nat /\ 3 * id + 3 <= Len(d.index.data)
    <3>1. Len(d.index.data) \in Nat
      BY DiskData
    <3> QED
      BY <1>1, <3>1
  <2> QED
    BY <2>1, DiskData, EntryFacts
<1> QED
  BY <1>2, <1>3

(* So are the first g of them.                                             *)
LEMMA RecordedLess ==
  ASSUME NEW d, NEW f \in Nat, NEW m, NEW n \in Nat, Recorded(d, f, m, n), NEW g \in 0..f
  PROVE  Recorded(d, g, m, n)
<1>1. 0..g - 1 \subseteq 0..f - 1 /\ 3 * g <= 3 * f
  OBVIOUS
<1>2. 3 * f <= n
  BY DEF Recorded
<1>3. 3 * g <= n
  BY <1>1, <1>2
<1> QED
  BY <1>1, <1>3 DEF Recorded

(* Records of a file that was cut lie in the order they had.               *)
LEMMA OrderedSame ==
  ASSUME NEW d, DiskType(d), NEW e, DiskType(e), NEW a \in Nat, Ordered(d, a),
         Len(e.index.data) <= Len(d.index.data),
         \A i \in 1..Len(e.index.data) : e.index.data[i] = d.index.data[i]
  PROVE  Ordered(e, a)
<1> DEFINE n == Len(e.index.data)
<1>1. n \in Nat /\ Len(d.index.data) \in Nat
  BY DiskData
<1> SUFFICES ASSUME NEW id \in 0..a - 1, NEW k \in Nat, id < k, 3 * k + 3 <= n
             PROVE  EndOf(Entry(e.index.data, id)) <= Entry(e.index.data, k).off
  BY DEF Ordered
<1>2. id \in Nat /\ 3 * id + 3 <= n /\ 3 * k + 3 <= Len(d.index.data)
  BY <1>1
<1>3. \A i \in 1..n : e.index.data[i] = d.index.data[i]
  OBVIOUS
<1> HIDE DEF n
<1>4. Entry(e.index.data, id) = Entry(d.index.data, id)
  <2> DEFINE x == d.index.data
             y == e.index.data
  <2>1. /\ n \in Nat /\ id \in Nat /\ 3 * id + 3 <= n
        /\ \A i \in 1..n : y[i] = x[i]
    BY <1>1, <1>2, <1>3
  <2> HIDE DEF x, y
  <2>2. Entry(y, id) = Entry(x, id)
    BY ONLY <2>1, EntryStable
  <2> QED
    BY <2>2 DEF x, y
<1>5. Entry(e.index.data, k) = Entry(d.index.data, k)
  <2>1. n \in Nat /\ 3 * k + 3 <= n
    BY <1>1
  <2> QED
    BY <1>3, <2>1, EntryStable, ZenonT(60)
<1> QED
  BY <1>2, <1>4, <1>5 DEF Ordered

(* Lines stay in the files while both keep the part that holds them.       *)
LEMMA HoldsStays ==
  ASSUME NEW d, DiskType(d), NEW e, DiskType(e),
         NEW l \in Seq(Lines), NEW f \in Nat, f <= Len(l), Holds(d, l, f),
         NEW m \in Nat, NEW n \in Nat, Recorded(d, f, m, n),
         n <= Len(d.index.data), 3 * f <= Len(e.index.data),
         \A i \in 1..3 * f : e.index.data[i] = d.index.data[i],
         m <= Len(d.cache.data), m <= Len(e.cache.data),
         \A i \in 1..m : e.cache.data[i] = d.cache.data[i]
  PROVE  Holds(e, l, f)
<1> SUFFICES ASSUME NEW id \in 0..f - 1
             PROVE  Stored(e, id, l[id + 1])
  BY DEF Holds
<1>1. id \in Nat /\ l[id + 1] \in Lines
  <2>1. Len(l) \in Nat
    OBVIOUS
  <2>2. id + 1 \in 1..Len(l)
    BY <2>1
  <2> QED
    BY <2>2
<1>2. Stored(d, id, l[id + 1])
  BY DEF Holds
<1> DEFINE o == 3 * f
<1>3. /\ o \in Nat /\ 3 * id + 3 <= o /\ o <= Len(d.index.data) /\ o <= Len(e.index.data)
      /\ \A i \in 1..o : e.index.data[i] = d.index.data[i]
  <2>1. o <= n /\ Len(d.index.data) \in Nat
    BY DiskData DEF Recorded
  <2> QED
    BY <2>1
<1>4. EndOf(Entry(d.index.data, id)) <= m
  BY DEF Recorded
<1> HIDE DEF o
<1> QED
  BY <1>1, <1>2, <1>3, <1>4, StoredStays

(* Who holds a lines holds the first b of them.                            *)
LEMMA HoldsLess ==
  ASSUME NEW d, NEW l, NEW a \in Nat, NEW b \in 0..a, Holds(d, l, a)
  PROVE  Holds(d, l, b)
<1>1. 0..b - 1 \subseteq 0..a - 1
  OBVIOUS
<1> QED
  BY <1>1 DEF Holds

(* What a handle shows is in its files.                                    *)
LEMMA ShowsHolds ==
  ASSUME NEW d, DiskType(d), d.mmap <= Len(d.cache.data),
         NEW l \in Seq(Lines), NEW a \in Nat, a <= Len(l), Shows(d, l, a)
  PROVE  /\ Holds(d, l, a)
         /\ Recorded(d, a, Len(d.cache.data), Len(d.index.data))
<1>1. \A id \in 0..a - 1 : Stored(d, id, l[id + 1])
  <2> SUFFICES ASSUME NEW id \in 0..a - 1
               PROVE  Stored(d, id, l[id + 1])
    OBVIOUS
  <2>1. id \in Nat /\ l[id + 1] \in Lines
    <3>1. Len(l) \in Nat
      OBVIOUS
    <3>2. id + 1 \in 1..Len(l)
      BY <3>1
    <3> QED
      BY <3>2
  <2>2. Returns(d, id, l[id + 1])
    BY DEF Shows
  <2> QED
    BY <2>1, <2>2, ReturnsFacts
<1>2. \A id \in 0..a - 1 : /\ 3 * id + 3 <= Len(d.index.data)
                            /\ EndOf(Entry(d.index.data, id)) <= Len(d.cache.data)
  BY <1>1 DEF Stored
<1>3. 3 * a <= Len(d.index.data)
  <2>1. Len(d.index.data) \in Nat
    BY DiskData
  <2>2. CASE a = 0
    BY <2>1, <2>2
  <2>3. CASE a # 0
    <3>1. a - 1 \in 0..a - 1
      BY <2>3
    <3>2. 3 * (a - 1) + 3 <= Len(d.index.data)
      BY <1>2, <3>1
    <3> QED
      BY <2>1, <3>2
  <2> QED
    BY <2>2, <2>3
<1> QED
  BY <1>1, <1>2, <1>3 DEF Holds, Recorded

(* A flush fsyncs nothing, a sync everything.                              *)
LEMMA FlushDur ==
  ASSUME NEW d, DiskType(d)
  PROVE  /\ \A e \in {Flush(d), AfterRead(d)} :
              e.cache.dur = d.cache.dur /\ e.index.dur = d.index.dur
         /\ Sync(d).cache.dur = Len(d.cache.data) /\ Sync(d).index.dur = Len(d.index.data)
<1>1. /\ FlushStream(d.cache).dur = d.cache.dur /\ FlushStream(d.index).dur = d.index.dur
      /\ FlushStream(d.cache).os = Len(d.cache.data) /\ FlushStream(d.index).os = Len(d.index.data)
      /\ StreamType(FlushStream(d.cache), CacheWord) /\ StreamType(FlushStream(d.index), Nat)
  <2>1. StreamType(d.cache, CacheWord) /\ StreamType(d.index, Nat)
    BY DiskFields
  <2>2. /\ FlushStream(d.cache).dur = d.cache.dur /\ FlushStream(d.index).dur = d.index.dur
    BY <2>1 DEF FlushStream, StreamType
  <2> QED
    BY <2>1, <2>2, FlushStreamFacts
<1>2. Flush(d).cache = FlushStream(d.cache) /\ Flush(d).index = FlushStream(d.index)
  BY DEF Flush, Disk
<1>3. AfterRead(d).cache = Flush(d).cache /\ AfterRead(d).index = Flush(d).index
  BY DEF AfterRead, Disk
<1>4. /\ Sync(d).cache = SyncStream(Flush(d).cache)
      /\ Sync(d).index = SyncStream(Flush(d).index)
  BY DEF Sync, Disk
<1>5. \A s : StreamType(s, CacheWord) \/ StreamType(s, Nat) => SyncStream(s).dur = s.os
  BY DEF SyncStream, StreamType
<1> QED
  BY <1>1, <1>2, <1>3, <1>4, <1>5

(* append_line fsyncs nothing.                                             *)
LEMMA AppendDur ==
  ASSUME NEW d, NEW v, NEW k \in 0..4
  PROVE  /\ AppendWrites(d, v, k).cache.dur = d.cache.dur
         /\ AppendWrites(d, v, k).index.dur = d.index.dur
BY DEF AppendWrites, Write, Disk

(* Flushing makes every line shown firm; syncing makes it durable.         *)
LEMMA FlushedSafe ==
  ASSUME NEW d, DiskType(d), d.mmap <= Len(d.cache.data),
         NEW l \in Seq(Lines), NEW a \in Nat, a <= Len(l), Shows(d, l, a),
         NEW f, NEW s \in Nat, Safe(d, l, a, f, s)
  PROVE  /\ \A e \in {Flush(d), AfterRead(d)} : Safe(e, l, a, a, s)
         /\ Safe(Sync(d), l, a, a, a)
<1>1. /\ Holds(d, l, a)
      /\ Recorded(d, a, Len(d.cache.data), Len(d.index.data))
  BY ShowsHolds
<1>2. Ordered(d, a) /\ Recorded(d, s, d.cache.dur, d.index.dur)
  BY DEF Safe
<1>3. ASSUME NEW e \in {Flush(d), Sync(d), AfterRead(d)}
      PROVE  /\ Ordered(e, a) /\ Recorded(e, a, e.cache.os, e.index.os)
             /\ Recorded(e, s, d.cache.dur, d.index.dur) /\ Holds(e, l, a)
  <2>1. /\ e.cache.data = d.cache.data /\ e.cache.os = Len(d.cache.data)
        /\ e.index.data = d.index.data /\ e.index.os = Len(d.index.data)
    BY FlushFacts
  <2> QED
    BY <1>1, <1>2, <2>1 DEF Ordered, Recorded, Holds, Stored
<1>4. Sync(d).cache.os = Len(d.cache.data) /\ Sync(d).index.os = Len(d.index.data)
  BY FlushFacts
<1> QED
  BY <1>3, <1>4, FlushDur DEF Safe

(* A flush stopped half way has only handed over more of .cache.           *)
LEMMA HalfFlushedSafe ==
  ASSUME NEW d, DiskType(d), NEW l, NEW a, NEW f \in Nat, NEW s,
         Safe(d, l, a, f, s)
  PROVE  DiskType(HalfFlushed(d)) /\ Safe(HalfFlushed(d), l, a, f, s)
<1> DEFINE e == HalfFlushed(d)
<1>1. /\ DiskType(e)
      /\ e.index = d.index /\ e.cache.data = d.cache.data /\ e.cache.dur = d.cache.dur
      /\ e.cache.os = Len(d.cache.data)
  BY HalfFlushedFacts
<1> HIDE DEF e
<1>2. /\ Ordered(d, a) /\ Recorded(d, f, d.cache.os, d.index.os) /\ Holds(d, l, f)
      /\ Recorded(d, s, d.cache.dur, d.index.dur)
  BY DEF Safe
<1>3. /\ d.cache.os \in Nat /\ d.index.os \in Nat /\ d.index.os <= Len(d.index.data)
      /\ Len(d.cache.data) \in Nat /\ d.cache.os <= Len(d.cache.data)
  BY DiskData
<1>4. Recorded(d, f, Len(d.cache.data), d.index.os)
  BY <1>2, <1>3, RecordedMore
<1> QED
  BY <1>1, <1>2, <1>4 DEF Safe, Ordered, Recorded, Holds, Stored, e

(* append_line, cut short or not: what it writes begins behind the lines.  *)
LEMMA WrittenSafe ==
  ASSUME NEW d, DiskType(d), NEW l \in Seq(Lines),
         NEW a \in Nat, NEW f \in Nat, NEW s \in Nat, f <= Len(l), Safe(d, l, a, f, s),
         a > 0 => Len(d.index.data) = 3 * d.count, EndsBehind(d, a),
         NEW v \in Lines, NEW k \in 0..4
  PROVE  Safe(AppendWrites(d, v, k), l, a, f, s)
<1> DEFINE e == AppendWrites(d, v, k)
           len == Len(d.index.data)
<1>1. /\ DiskType(e) /\ d.cache.os <= e.cache.os /\ d.index.os <= e.index.os
      /\ len <= Len(e.index.data)
      /\ \A i \in 1..len : e.index.data[i] = d.index.data[i]
      /\ k < 4 => Len(e.index.data) < len + 3
      /\ k = 4 => /\ Len(e.index.data) = len + 3
                  /\ \A n \in Nat : len = 3 * n
                       => Entry(e.index.data, n) = [off |-> d.off, len |-> Size[v]]
  BY AppendWritesFacts, ZenonT(60) DEF StartsWith
<1>2. /\ Len(d.cache.data) <= Len(e.cache.data)
      /\ \A i \in 1..Len(d.cache.data) : e.cache.data[i] = d.cache.data[i]
  BY AppendContent DEF StartsWith
<1>3. e.cache.dur = d.cache.dur /\ e.index.dur = d.index.dur
  BY AppendDur
<1> HIDE DEF e
<1>4. /\ Ordered(d, a) /\ Recorded(d, f, d.cache.os, d.index.os)
      /\ Recorded(d, s, d.cache.dur, d.index.dur) /\ Holds(d, l, f)
  BY DEF Safe
<1>5. /\ len \in Nat /\ Len(d.cache.data) \in Nat
      /\ d.cache.os \in 0..Len(d.cache.data) /\ d.index.os \in 0..len
      /\ d.cache.dur \in 0..d.cache.os /\ d.index.dur \in 0..d.index.os
      /\ d.off \in Nat /\ d.count \in Nat
  BY DiskData, DiskFields
<1>6. /\ Len(e.index.data) \in Nat /\ Len(e.cache.data) \in Nat
      /\ e.cache.os \in Nat /\ e.index.os \in Nat
  BY <1>1, DiskData
<1> HIDE DEF len
<1>5a. len <= Len(e.index.data) /\ \A i \in 1..len : e.index.data[i] = d.index.data[i]
  BY <1>1
<1>5b. /\ len \in Nat /\ d.index.os \in Nat /\ d.index.os <= len
       /\ d.cache.os \in Nat /\ d.cache.os <= Len(d.cache.data)
  BY <1>5
<1>5c. /\ Len(d.cache.data) <= Len(e.cache.data) /\ Len(d.cache.data) \in Nat
       /\ d.cache.os <= e.cache.os /\ d.index.os <= e.index.os
  BY <1>1, <1>2, <1>5
<1>5d. len \in Nat /\ \A i \in 1..len : e.index.data[i] = d.index.data[i]
  BY <1>5a, <1>5b
<1>7. 3 * f <= len /\ 3 * s <= len
  <2>1. 3 * f <= d.index.os /\ 3 * s <= d.index.dur
    BY <1>4 DEF Recorded
  <2> QED
    BY <1>5, <2>1, SMTT(30)
<1>8. \A i \in 1..3 * f : e.index.data[i] = d.index.data[i]
  BY <1>5a, <1>5b, <1>7, SMTT(30)
<1>9. \A i \in 1..3 * s : e.index.data[i] = d.index.data[i]
  BY <1>5a, <1>5b, <1>7
<1>10. Recorded(e, f, e.cache.os, e.index.os)
  <2> DEFINE m == d.cache.os
             n == d.index.os
  <2>1. 3 * f <= n /\ Recorded(d, f, m, n)
    BY <1>4 DEF Recorded
  <2>2. /\ n <= Len(e.index.data) /\ m \in Nat /\ n \in Nat
        /\ m <= e.cache.os /\ n <= e.index.os
    BY <1>5a, <1>5b, <1>5c, <1>6
  <2> HIDE DEF m, n
  <2>3. Recorded(e, f, m, n)
    BY <1>8, <2>1, RecordedSame
  <2>4. DiskType(e) /\ e.cache.os \in Nat /\ e.index.os \in Nat
    BY <1>1, <1>6
  <2> QED
    BY <2>2, <2>3, <2>4, RecordedMore
<1>11. Recorded(e, s, e.cache.dur, e.index.dur)
  <2> DEFINE m == d.cache.dur
             n == d.index.dur
  <2>1. 3 * s <= n /\ Recorded(d, s, m, n)
    BY <1>4 DEF Recorded
  <2> HIDE DEF m, n
  <2>2. Recorded(e, s, m, n)
    BY <1>9, <2>1, RecordedSame
  <2> QED
    BY <1>3, <2>2 DEF m, n
<1>12. Holds(e, l, f)
  <2> DEFINE m == d.cache.os
             n == d.index.os
  <2>1. /\ m \in Nat /\ n \in Nat /\ n <= Len(d.index.data)
        /\ m <= Len(d.cache.data) /\ m <= Len(e.cache.data)
    BY <1>5b, <1>5c, <1>6, SMTT(30) DEF len
  <2>2. 3 * f <= Len(e.index.data)
    BY <1>5a, <1>5b, <1>6, <1>7
  <2>3. \A i \in 1..m : e.cache.data[i] = d.cache.data[i]
    BY <1>2, <1>5
  <2>4. Recorded(d, f, m, n) /\ Holds(d, l, f)
    BY <1>4
  <2> HIDE DEF m, n
  <2> QED
    <3>1. DiskType(e)
      BY <1>1
    <3> QED
      BY <1>8, <2>1, <2>2, <2>3, <2>4, <3>1, HoldsStays
<1>14. \A j \in Nat : 3 * j + 3 <= len => Entry(e.index.data, j) = Entry(d.index.data, j)
  <2> DEFINE x == d.index.data
             y == e.index.data
  <2>1. len \in Nat /\ \A i \in 1..len : y[i] = x[i]
    BY <1>5d
  <2> HIDE DEF x, y
  <2>2. \A j \in Nat : 3 * j + 3 <= len => Entry(y, j) = Entry(x, j)
    BY <2>1, EntriesSame
  <2> QED
    BY <2>2 DEF x, y
<1>13. Ordered(e, a)
  <2> SUFFICES ASSUME NEW id \in 0..a - 1, NEW j \in Nat, id < j, 3 * j + 3 <= Len(e.index.data)
               PROVE  EndOf(Entry(e.index.data, id)) <= Entry(e.index.data, j).off
    BY DEF Ordered
  <2>1. id \in Nat /\ len = 3 * d.count
    BY DEF len
  <2>2. j <= d.count /\ (j = d.count => k = 4)
    <3>1. k \in 0..4 /\ d.count \in Nat
      BY <1>5
    <3>2. k = 4 \/ k < 4
      BY <3>1
    <3>3. CASE k = 4
      <4>1. Len(e.index.data) = 3 * d.count + 3
        BY <1>1, <2>1, <3>3
      <4> QED
        BY <3>1, <3>3, <4>1
    <3>4. CASE k < 4
      <4>1. Len(e.index.data) < 3 * d.count + 3
        BY <1>1, <2>1, <3>4
      <4>2. Len(e.index.data) \in Nat
        BY <1>6
      <4>3. j < d.count
        BY ONLY <3>1, <4>1, <4>2, 3 * j + 3 <= Len(e.index.data), j \in Nat
      <4> QED
        BY <3>1, <4>3
    <3> QED
      BY <3>2, <3>3, <3>4
  <2>3. Entry(e.index.data, id) = Entry(d.index.data, id)
    <3>1. 3 * id + 3 <= len
      BY <1>5, <2>1, <2>2
    <3>2. id \in Nat
      BY <2>1
    <3> QED
      BY <1>14, <3>1, <3>2
  <2>4. CASE j < d.count
    <3>1. 3 * j + 3 <= len
      BY <1>5, <2>1, <2>4
    <3>2. Entry(e.index.data, j) = Entry(d.index.data, j)
      BY <1>14, <3>1
    <3> QED
      BY <1>4, <2>3, <3>1, <3>2 DEF Ordered, len
  <2>5. CASE j = d.count
    <3>1. Entry(e.index.data, j).off = d.off
      BY <1>1, <1>5, <2>1, <2>2, <2>5, SMTT(30)
    <3>2. EndOf(Entry(d.index.data, id)) <= d.off
      BY DEF EndsBehind
    <3> QED
      BY <2>3, <3>1, <3>2
  <2> QED
    BY <1>5, <2>2, <2>4, <2>5
<1> QED
  BY <1>10, <1>11, <1>12, <1>13 DEF Safe, e

(* What is cut off when a process or the machine dies held no safe line.   *)
LEMMA CutSafe ==
  ASSUME NEW d, DiskType(d), NEW l \in Seq(Lines),
         NEW a \in Nat, Ordered(d, a),
         NEW s \in Nat, Recorded(d, s, d.cache.dur, d.index.dur),
         NEW m \in Nat, d.cache.dur <= m, m <= Len(d.cache.data),
         NEW n \in Nat, d.index.dur <= n, n <= Len(d.index.data),
         NEW g \in Nat, g <= Len(l), Holds(d, l, g), Recorded(d, g, m, n)
  PROVE  Safe(Closed(Survives(d.cache, m), Survives(d.index, n)), l, a, g, s)
<1> DEFINE e == Closed(Survives(d.cache, m), Survives(d.index, n))
<1>1. /\ Len(d.cache.data) \in Nat /\ Len(d.index.data) \in Nat
      /\ d.cache.dur \in Nat /\ d.index.dur \in Nat
  BY DiskData
<1>2. m \in 0..Len(d.cache.data) /\ n \in 0..Len(d.index.data)
  BY <1>1
<1>3. /\ DiskType(e)
      /\ Len(e.cache.data) = m /\ e.cache.os = m
      /\ Len(e.index.data) = n /\ e.index.os = n
      /\ \A i \in 1..m : e.cache.data[i] = d.cache.data[i]
      /\ \A i \in 1..n : e.index.data[i] = d.index.data[i]
      /\ \A k \in Nat : k <= m /\ k <= d.cache.dur => k <= e.cache.dur
      /\ \A k \in Nat : k <= n /\ k <= d.index.dur => k <= e.index.dur
  BY <1>2, ClosedFacts
<1> HIDE DEF e
<1>4. 3 * g <= n /\ 3 * s <= d.index.dur /\ 3 * s <= n
  BY <1>1 DEF Recorded
<1>5. /\ \A i \in 1..3 * g : e.index.data[i] = d.index.data[i]
      /\ \A i \in 1..3 * s : e.index.data[i] = d.index.data[i]
  <2>1. 1..3 * g \subseteq 1..n /\ 1..3 * s \subseteq 1..n
    BY <1>4
  <2> QED
    BY <1>3, <2>1
<1>6. Ordered(e, a)
  BY <1>3, OrderedSame
<1>7. Recorded(e, g, e.cache.os, e.index.os)
  <2>1. Recorded(e, g, m, n)
    BY <1>4, <1>5, RecordedSame
  <2> QED
    BY <1>3, <2>1
<1>8. Recorded(e, s, e.cache.dur, e.index.dur)
  <2> DEFINE p == d.cache.dur
             o == d.index.dur
  <2>1. p \in Nat /\ o \in Nat /\ p <= e.cache.dur /\ o <= e.index.dur /\ o <= n
    BY <1>1, <1>3, SMTT(30)
  <2>2. e.cache.dur \in Nat /\ e.index.dur \in Nat
    BY <1>3, DiskData
  <2>3. Recorded(d, s, p, o) /\ 3 * s <= o
    BY <1>4
  <2> HIDE DEF p, o
  <2>4. Recorded(e, s, p, o)
    BY <1>5, <2>3, RecordedSame
  <2>5. o <= Len(e.index.data) /\ DiskType(e)
    BY <1>3, <2>1
  <2> QED
    BY <2>1, <2>2, <2>4, <2>5, RecordedMore
<1>9. Holds(e, l, g)
  <2>1. 3 * g <= Len(e.index.data) /\ m <= Len(e.cache.data) /\ DiskType(e)
    BY <1>3, <1>4
  <2>2. \A i \in 1..m : e.cache.data[i] = d.cache.data[i]
    BY <1>3
  <2> QED
    BY <1>5, <2>1, <2>2, HoldsStays
<1> QED
  BY <1>6, <1>7, <1>8, <1>9 DEF Safe, e

(* recover counts every flushed line: the index holds its record, and the  *)
(* last record is not dropped if it is that of a flushed line.             *)
LEMMA OpenCounts ==
  ASSUME NEW d, DiskType(d), NEW f \in Nat,
         Recorded(d, f, Len(d.cache.data), Len(d.index.data))
  PROVE  /\ WholeRecords(d.index.data) \in Nat
         /\ f <= WholeRecords(d.index.data)
         /\ IndexAhead(d) => f <= WholeRecords(d.index.data) - 1
<1> DEFINE n == WholeRecords(d.index.data)
<1>1. /\ n \in Nat /\ Len(d.index.data) \in Nat
      /\ 3 * n <= Len(d.index.data) /\ Len(d.index.data) < 3 * n + 3
  BY DiskData, RecordsFacts
<1>2. 3 * f <= Len(d.index.data)
  BY DEF Recorded
<1> HIDE DEF n
<1>3. f <= n
  BY <1>1, <1>2
<1>4. ASSUME IndexAhead(d), f = n
      PROVE  FALSE
  <2>1. n > 0 /\ Len(d.cache.data) < EndOf(Entry(d.index.data, n - 1))
    BY <1>4 DEF IndexAhead, LastEnd, n
  <2>2. n - 1 \in 0..f - 1
    BY <1>1, <1>4, <2>1
  <2>3. EndOf(Entry(d.index.data, n - 1)) <= Len(d.cache.data)
    BY <2>2 DEF Recorded
  <2>4. Len(d.cache.data) \in Nat /\ EndOf(Entry(d.index.data, n - 1)) \in Nat
    <3>1. n - 1 \in Nat /\ 3 * (n - 1) + 3 <= Len(d.index.data)
      BY <1>1, <2>1
    <3> QED
      BY <3>1, DiskData, EntryFacts
  <2> QED
    BY <2>1, <2>3, <2>4
<1>5. IndexAhead(d) => f <= n - 1
  BY <1>1, <1>3, <1>4
<1> QED
  BY <1>1, <1>3, <1>5 DEF n

(* ... and none of its records ends beyond the cut recover makes.          *)
LEMMA OpenEndsBehind ==
  ASSUME NEW d, DiskType(d), NEW a \in Nat, Ordered(d, a),
         NEW b \in 0..a, b <= Open(d).count
  PROVE  \A id \in 0..b - 1 : EndOf(Entry(d.index.data, id)) <= Open(d).off
<1> DEFINE c == Open(d).count
           x == d.index.data
<1> SUFFICES ASSUME NEW id \in 0..b - 1
             PROVE  EndOf(Entry(x, id)) <= Open(d).off
  OBVIOUS
<1>1. c \in Nat /\ 3 * c <= Len(x)
  BY OpenParts, OpenKeeps
<1>2. c > 0 /\ id \in Nat /\ id <= c - 1 /\ id \in 0..a - 1 /\ c - 1 \in Nat
  BY <1>1
<1>3. Open(d).off = EndOf(Entry(x, c - 1))
  BY <1>2, OpenParts
<1> HIDE DEF c
<1>4. 3 * (c - 1) + 3 <= Len(x) /\ Len(x) \in Nat /\ x \in Seq(Nat)
  BY <1>1, DiskData
<1>5. CASE id = c - 1
  <2>1. EndOf(Entry(x, c - 1)) \in Nat
    BY <1>2, <1>4, EntryFacts
  <2> QED
    BY <1>3, <1>5, <2>1
<1>6. CASE id # c - 1
  <2>1. id < c - 1
    BY <1>1, <1>2, <1>6
  <2>2. EndOf(Entry(x, id)) <= Entry(x, c - 1).off
    BY <1>2, <1>4, <2>1 DEF Ordered
  <2>3. /\ Entry(x, c - 1).off \in Nat /\ EndOf(Entry(x, c - 1)) \in Nat
        /\ Entry(x, c - 1).off < EndOf(Entry(x, c - 1))
    BY <1>2, <1>4, EntryFacts
  <2>4. EndOf(Entry(x, id)) \in Nat
    <3>1. 3 * id + 3 <= Len(x)
      BY <1>1, <1>2, <1>4
    <3> QED
      BY <1>2, <1>4, <3>1, EntryFacts
  <2> QED
    BY <1>3, <2>2, <2>3, <2>4
<1> QED
  BY <1>5, <1>6

(* recover keeps every line that is safe: the record it looks at lies      *)
(* behind them, so it cuts no word of theirs.                              *)
LEMMA OpenShows ==
  ASSUME NEW d, DiskType(d), d.cache.os = Len(d.cache.data), d.index.os = Len(d.index.data),
         NEW l \in Seq(Lines), NEW a \in Nat, NEW f \in 0..a, f <= Len(l),
         NEW s \in 0..f, Safe(d, l, a, f, s)
  PROVE  LET e == Open(d)
         IN /\ f <= e.count /\ Shows(e, l, f)
            /\ Recorded(e, s, e.cache.dur, e.index.dur)
<1> DEFINE e == Open(d)
           x == d.index.data
           y == e.index.data
           p == Len(d.cache.data)
           q == Len(e.cache.data)
<1>1. /\ f \in Nat /\ s \in Nat /\ p \in Nat /\ Len(x) \in Nat
      /\ d.cache.dur \in Nat /\ d.index.dur \in Nat /\ d.cache.dur <= p
  BY DiskData
<1>2. /\ Ordered(d, a) /\ Recorded(d, f, p, Len(x)) /\ Holds(d, l, f)
      /\ Recorded(d, s, d.cache.dur, d.index.dur)
  BY DEF Safe
<1>3. f <= e.count /\ e.count \in Nat /\ e.mmap = NoMmap
  BY <1>1, <1>2, OpenCounts, OpenParts
<1>4. /\ DiskType(e)
      /\ 3 * e.count <= Len(x) /\ 3 * e.count <= Len(y)
      /\ \A i \in 1..3 * e.count : y[i] = x[i]
      /\ \A m \in Nat : m <= 3 * e.count /\ m <= d.index.dur => m <= e.index.dur
  BY OpenKeeps
<1>5. /\ \A i \in 1..q : i <= p => e.cache.data[i] = d.cache.data[i]
      /\ \A m \in Nat : (IndexAhead(d) => m <= e.off) /\ m <= p
           => m <= q /\ (m <= d.cache.dur => m <= e.cache.dur)
  BY OpenKeeps
<1>6. \A id \in 0..f - 1 : EndOf(Entry(x, id)) <= e.off
  BY <1>2, <1>3, OpenEndsBehind
<1>7. q \in Nat /\ Len(y) \in Nat /\ e.off \in Nat
  BY <1>4, DiskData, DiskFields
<1> HIDE DEF e, x, y, p, q
<1>8. /\ 3 * f <= 3 * e.count /\ 3 * f <= Len(x) /\ 3 * f <= Len(y)
      /\ \A i \in 1..3 * f : y[i] = x[i]
  <2>1. 3 * f <= 3 * e.count /\ 3 * f <= Len(x) /\ 3 * f <= Len(y)
    BY <1>1, <1>3, <1>4, <1>7, SMTT(30)
  <2>2. 1..3 * f \subseteq 1..3 * e.count
    BY <1>3, <2>1
  <2> QED
    BY <1>4, <2>1, <2>2
(* m: what both cache files have of the lines.                             *)
<1>9. PICK m \in Nat : /\ m <= p /\ (IndexAhead(d) => m <= e.off)
                       /\ \A id \in 0..f - 1 : EndOf(Entry(x, id)) <= m
  <2> DEFINE m == IF IndexAhead(d) THEN Lesser(e.off, p) ELSE p
  <2>1. m \in Nat /\ m <= p /\ (IndexAhead(d) => m <= e.off) /\ (m = p \/ m = e.off)
    BY <1>1, <1>7 DEF Lesser
  <2>2. \A id \in 0..f - 1 : EndOf(Entry(x, id)) <= p
    BY <1>2 DEF Recorded, x
  <2> HIDE DEF m
  <2> QED
    BY <1>6, <2>1, <2>2
<1>10. m <= q /\ \A i \in 1..m : e.cache.data[i] = d.cache.data[i]
  <2>1. m <= q
    BY <1>5, <1>9
  <2>2. \A i \in 1..m : i \in 1..q /\ i <= p
    BY <1>1, <1>7, <1>9, <2>1
  <2> QED
    BY <1>5, <2>1, <2>2
<1>11. Holds(e, l, f)
  <2> DEFINE n == Len(x)
  <2>1. n \in Nat /\ n <= Len(d.index.data) /\ 3 * f <= n /\ 3 * f <= Len(e.index.data)
    BY <1>1, <1>8 DEF x, y
  <2>2. Recorded(d, f, m, n)
    BY <1>8, <1>9 DEF Recorded, x
  <2>3. m <= Len(d.cache.data) /\ m <= Len(e.cache.data)
    BY <1>9, <1>10 DEF p, q
  <2>4. \A i \in 1..3 * f : e.index.data[i] = d.index.data[i]
    BY <1>8 DEF x, y
  <2>5. DiskType(e)
    BY <1>4
  <2> HIDE DEF n
  <2> QED
    BY <1>1, <1>2, <1>10, <2>1, <2>2, <2>3, <2>4, <2>5, HoldsStays
<1>12. Shows(e, l, f)
  <2> SUFFICES ASSUME NEW id \in 0..f - 1
               PROVE  Returns(e, id, l[id + 1])
    BY DEF Shows
  <2>1. id \in Nat /\ l[id + 1] \in Lines
    <3>1. Len(l) \in Nat
      OBVIOUS
    <3>2. id + 1 \in 1..Len(l)
      BY <1>1, <3>1
    <3> QED
      BY <3>2
  <2>2. Stored(e, id, l[id + 1])
    BY <1>11 DEF Holds
  <2>3. EndOf(Entry(e.index.data, id)) <= q
    BY <2>2 DEF Stored, q
  <2>4. id < e.count
    BY <1>1, <1>3
  <2>5. Visible(e) = q /\ e.mmap <= q
    BY <1>3, <1>7 DEF Visible, q, NoMmap
  <2> QED
    BY <1>4, <2>1, <2>2, <2>3, <2>4, <2>5, ReturnsFacts DEF q
<1>13. Recorded(e, s, e.cache.dur, e.index.dur)
  <2>1. 3 * s <= d.index.dur /\ \A id \in 0..s - 1 : EndOf(Entry(x, id)) <= d.cache.dur
    BY <1>2 DEF Recorded, x
  <2>2. 3 * s <= e.index.dur
    <3>1. 3 * s \in Nat /\ 3 * s <= 3 * e.count
      BY <1>1, <1>3
    <3> QED
      BY <1>4, <2>1, <3>1
  <2>3. ASSUME NEW id \in 0..s - 1
        PROVE  EndOf(Entry(y, id)) <= e.cache.dur
    <3>1. id \in 0..f - 1 /\ id \in Nat /\ 3 * f \in Nat /\ 3 * id + 3 <= 3 * f
      BY <1>1
    <3>2. Entry(y, id) = Entry(x, id)
      BY <1>8, <3>1, EntryStable, ZenonT(60)
    <3> DEFINE k == EndOf(Entry(x, id))
    <3>3. k \in Nat
      <4>1. 3 * id + 3 <= Len(x)
        BY <1>1, <1>8, <3>1
      <4> QED
        BY <3>1, <4>1, DiskData, EntryFacts DEF x
    <3>4. k <= d.cache.dur /\ k <= e.off
      BY <1>6, <2>1, <3>1
    <3> HIDE DEF k
    <3>5. k <= p
      BY <1>1, <3>3, <3>4
    <3>6. k <= e.cache.dur
      BY <1>5, <3>3, <3>4, <3>5
    <3> QED
      BY <3>2, <3>6 DEF k
  <2> QED
    BY <2>2, <2>3 DEF Recorded, y
<1> QED
  BY <1>3, <1>12, <1>13 DEF e

(* After open any lines shown, among them all the flushed ones, are as     *)
(* safe as they were.                                                      *)
LEMMA OpenSafe ==
  ASSUME NEW d, DiskType(d), d.cache.os = Len(d.cache.data), d.index.os = Len(d.index.data),
         NEW l \in Seq(Lines), NEW a \in Nat, NEW f \in 0..a, f <= Len(l),
         NEW s \in 0..f, Safe(d, l, a, f, s),
         NEW b \in f..a, b <= Open(d).count
  PROVE  /\ Safe(Open(d), l, b, f, s) /\ EndsBehind(Open(d), b)
         /\ b > 0 => Len(Open(d).index.data) = 3 * Open(d).count
<1> DEFINE e == Open(d)
           c == e.count
           x == d.index.data
           y == e.index.data
<1>1. f \in Nat /\ b \in Nat /\ b \in 0..a /\ c \in Nat /\ e.mmap = NoMmap
  BY OpenParts
<1>2. Ordered(d, a)
  BY DEF Safe
<1>3. /\ DiskType(e) /\ 3 * c <= Len(x) /\ \A i \in 1..3 * c : y[i] = x[i]
      /\ e.index.os = Len(y) /\ e.cache.os = Len(e.cache.data)
  BY OpenKeeps
<1>4. Shows(e, l, f) /\ Recorded(e, s, e.cache.dur, e.index.dur)
  BY OpenShows
<1>5. /\ c > 0 => Len(y) = 3 * c
      /\ c = 0 => y = x
  <2>1. c = 0 => e.index = d.index
    BY OpenParts
  <2>2. c > 0 => e.index = KeepRecords(d.index, c)
    BY OpenParts
  <2>3. StreamType(d.index, Nat)
    BY DiskFields
  <2> HIDE DEF c, e
  <2> QED
    BY <1>1, <1>3, <2>1, <2>2, <2>3, KeepRecordsFacts
<1>6. Ordered(e, b)
  <2>1. Len(y) \in Nat /\ Len(x) \in Nat
    BY <1>3, DiskData
  <2>2. Len(y) <= Len(x) /\ \A i \in 1..Len(y) : y[i] = x[i]
    <3> HIDE DEF c, x, y
    <3>1. CASE c = 0
      BY <1>5, <2>1, <3>1
    <3>2. CASE c > 0
      BY <1>3, <1>5, <3>2
    <3> QED
      BY <1>1, <3>1, <3>2
  <2>3. Ordered(e, a)
    BY <1>2, <1>3, <2>2, OrderedSame
  <2>4. 0..b - 1 \subseteq 0..a - 1
    BY <1>1
  <2> QED
    BY <2>3, <2>4 DEF Ordered
<1>7. EndsBehind(e, b)
  <2>1. \A id \in 0..b - 1 : EndOf(Entry(x, id)) <= e.off
    BY <1>1, <1>2, OpenEndsBehind
  <2>2. \A id \in 0..b - 1 : Entry(y, id) = Entry(x, id)
    <3>1. \A id \in 0..b - 1 : id \in Nat /\ 3 * id + 3 <= 3 * c
      BY <1>1
    <3>2. 3 * c \in Nat
      BY <1>1
    <3> HIDE DEF c, x, y
    <3> QED
      BY <1>3, <3>1, <3>2, EntriesSame
  <2> QED
    BY <2>1, <2>2 DEF EndsBehind
<1>8. Holds(e, l, f) /\ Recorded(e, f, e.cache.os, e.index.os)
  <2>1. e.mmap <= Len(e.cache.data)
    BY <1>1, <1>3, DiskData DEF NoMmap
  <2> QED
    BY <1>1, <1>3, <1>4, <2>1, ShowsHolds
<1>9. b > 0 => Len(y) = 3 * c
  BY <1>1, <1>5
<1> QED
  BY <1>4, <1>6, <1>7, <1>8, <1>9 DEF Safe

(* A recovery that gives up has only dropped a record that is not flushed. *)
LEMMA FailedOpenSafe ==
  ASSUME NEW d, DiskType(d), d.cache.os = Len(d.cache.data), d.index.os = Len(d.index.data),
         NEW l \in Seq(Lines), NEW a \in Nat, NEW f \in 0..a, f <= Len(l),
         NEW s \in 0..f, Safe(d, l, a, f, s), OpenCuts(d)
  PROVE  Safe(AfterFailedOpen(d), l, a, f, s)
<1> DEFINE e == AfterFailedOpen(d)
           x == d.index.data
           y == e.index.data
           n == WholeRecords(x) - 1
<1>1. /\ Ordered(d, a) /\ Holds(d, l, f)
      /\ Recorded(d, f, Len(d.cache.data), Len(x))
      /\ Recorded(d, f, d.cache.os, d.index.os)
      /\ Recorded(d, s, d.cache.dur, d.index.dur)
  BY DEF Safe
<1>2. f <= n
  BY <1>1, OpenCounts DEF OpenCuts
<1>3. /\ DiskType(e) /\ e.cache = d.cache /\ n \in Nat
      /\ Len(y) = 3 * n /\ 3 * n <= Len(x)
      /\ \A i \in 1..3 * n : y[i] = x[i]
      /\ e.index.os = Len(y)
      /\ \A m \in Nat : m <= 3 * n /\ m <= d.index.dur => m <= e.index.dur
  BY FailedOpenFacts
<1> HIDE DEF e, n
<1>4. 3 * f <= 3 * n /\ 3 * s <= 3 * n /\ 3 * f \in Nat /\ 3 * s \in Nat
  BY <1>2, <1>3
<1>5. /\ \A i \in 1..3 * f : y[i] = x[i]
      /\ \A i \in 1..3 * s : y[i] = x[i]
  <2>1. 1..3 * f \subseteq 1..3 * n /\ 1..3 * s \subseteq 1..3 * n
    BY <1>3, <1>4, SMTT(30)
  <2> QED
    BY <1>3, <2>1
<1>6. Ordered(e, a)
  <2>1. Len(y) <= Len(x) /\ \A i \in 1..Len(y) : y[i] = x[i]
    BY <1>3
  <2> QED
    BY <1>1, <1>3, <2>1, OrderedSame
<1>7. Recorded(e, f, e.cache.os, e.index.os)
  <2>1. 3 * f <= e.index.os
    BY <1>3, <1>4
  <2> DEFINE m == d.cache.os
             q == d.index.os
  <2>2. Recorded(d, f, m, q)
    BY <1>1
  <2>3. f \in Nat /\ e.cache.os = m
    BY <1>3
  <2>4. \A i \in 1..3 * f : e.index.data[i] = d.index.data[i]
    BY <1>5
  <2> DEFINE o == e.index.os
  <2>5. 3 * f <= o
    BY <2>1
  <2> HIDE DEF m, q, o
  <2>6. Recorded(e, f, m, o)
    BY <2>2, <2>3, <2>4, <2>5, RecordedSame
  <2> QED
    BY <2>3, <2>6 DEF o
<1>8. Recorded(e, s, e.cache.dur, e.index.dur)
  <2>1. 3 * s <= e.index.dur
    <3>1. 3 * s <= d.index.dur
      BY <1>1 DEF Recorded
    <3> QED
      BY <1>3, <1>4, <3>1
  <2> DEFINE m == d.cache.dur
             q == d.index.dur
  <2>2. Recorded(d, s, m, q)
    BY <1>1
  <2>3. s \in Nat /\ e.cache.dur = m
    BY <1>3
  <2>4. \A i \in 1..3 * s : e.index.data[i] = d.index.data[i]
    BY <1>5
  <2> DEFINE o == e.index.dur
  <2>5. 3 * s <= o
    BY <2>1
  <2> HIDE DEF m, q, o
  <2>6. Recorded(e, s, m, o)
    BY <2>2, <2>3, <2>4, <2>5, RecordedSame
  <2> QED
    BY <2>3, <2>6 DEF o
<1>9. Holds(e, l, f)
  <2> DEFINE m == Len(d.cache.data)
             q == Len(x)
  <2>1. /\ m \in Nat /\ q \in Nat /\ m <= Len(d.cache.data) /\ m <= Len(e.cache.data)
        /\ q <= Len(d.index.data)
    BY <1>3, DiskData
  <2>2. \A i \in 1..m : e.cache.data[i] = d.cache.data[i]
    BY <1>3
  <2>3. 3 * f <= Len(e.index.data) /\ f \in Nat
    BY <1>3, <1>4
  <2>4. Recorded(d, f, m, q)
    BY <1>1
  <2> HIDE DEF m, q
  <2> QED
    BY <1>1, <1>3, <1>5, <2>1, <2>2, <2>3, <2>4, HoldsStays
<1> QED
  BY <1>6, <1>7, <1>8, <1>9 DEF Safe, e

(* What was safe is safe after a kill.                                     *)
LEMMA KilledSafe ==
  ASSUME NEW d, DiskType(d), NEW l \in Seq(Lines), NEW a \in Nat,
         NEW f \in Nat, f <= Len(l), NEW s \in Nat, Safe(d, l, a, f, s)
  PROVE  /\ Safe(Killed(d), l, a, f, s)
         /\ Killed(d).cache.os = Len(Killed(d).cache.data)
         /\ Killed(d).index.os = Len(Killed(d).index.data)
<1> DEFINE m == d.cache.os
           n == d.index.os
<1>1. /\ m \in Nat /\ d.cache.dur <= m /\ m <= Len(d.cache.data)
      /\ n \in Nat /\ d.index.dur <= n /\ n <= Len(d.index.data)
  BY DiskData
<1>2. /\ Ordered(d, a) /\ Recorded(d, f, m, n) /\ Holds(d, l, f)
      /\ Recorded(d, s, d.cache.dur, d.index.dur)
  BY DEF Safe
<1>3. Killed(d) = Closed(Survives(d.cache, m), Survives(d.index, n))
  BY DEF Killed
<1> HIDE DEF m, n
<1>4. Safe(Killed(d), l, a, f, s)
  BY <1>1, <1>2, <1>3, CutSafe
<1> QED
  BY <1>4, KilledParts

(* What KeepInv says of one handle and of closed files.                    *)
LEMMA KeepParts ==
  ASSUME ReadInv, KeepInv
  PROVE  /\ DiskType(disk) /\ disk.mmap <= Len(disk.cache.data)
         /\ log \in Seq(Lines) /\ Len(log) \in Nat
         /\ aligned \in Nat /\ aligned <= Len(log)
         /\ firm \in 0..aligned /\ fsynced \in 0..firm /\ firm <= Len(log)
         /\ Safe(disk, log, aligned, firm, fsynced)
<1>1. /\ DiskType(disk) /\ disk.mmap <= Len(disk.cache.data)
      /\ log \in Seq(Lines) /\ Len(log) \in Nat
      /\ aligned \in Nat /\ aligned <= Len(log)
  BY MmapInFile DEF ReadInv, TypeOK
<1>2. /\ firm \in Nat /\ fsynced \in Nat /\ fsynced <= firm /\ firm <= aligned
      /\ Safe(disk, log, aligned, firm, fsynced)
  BY DEF KeepInv
<1> QED
  BY <1>1, <1>2

(* Two new files.                                                          *)
LEMMA InitKeepInv ==
  Init => KeepInv
<1> SUFFICES ASSUME Init
             PROVE  KeepInv
  OBVIOUS
<1> DEFINE z == EmptyStream
<1>1. z.os = 0 /\ z.dur = 0 /\ Len(z.data) = 0
  BY DEF EmptyStream
<1>2. disk = Disk(z, z, 0, 0, NoMmap)
  BY DEF Init, NewCache, Closed, Opened
<1> HIDE DEF z
<1>3. disk.cache = z /\ disk.index = z
  BY <1>2, DiskParts
<1>4. log = << >> /\ aligned = 0 /\ firm = 0 /\ fsynced = 0 /\ up = FALSE
  BY DEF Init
<1>5. Safe(disk, log, 0, 0, 0)
  BY <1>1, <1>3 DEF Safe, Ordered, Recorded, Holds
<1> QED
  BY <1>1, <1>3, <1>4, <1>5 DEF KeepInv

(* flush, sync, and the flush and mapping a read begins with.              *)
LEMMA FlushKeepInv ==
  ASSUME ReadInv, KeepInv, up, up' = up, log' = log, aligned' = aligned, firm' = aligned,
         \/ disk' \in {Flush(disk), AfterRead(disk)} /\ fsynced' = fsynced
         \/ disk' = Sync(disk) /\ fsynced' = aligned
  PROVE  KeepInv'
<1>1. /\ DiskType(disk) /\ disk.mmap <= Len(disk.cache.data)
      /\ log \in Seq(Lines) /\ aligned \in Nat /\ aligned <= Len(log)
      /\ firm \in 0..aligned /\ fsynced \in 0..firm
      /\ Safe(disk, log, aligned, firm, fsynced) /\ Shows(disk, log, aligned)
  BY KeepParts DEF ReadInv
<1>2. /\ disk'.off = disk.off /\ disk'.count = disk.count
      /\ disk'.index.data = disk.index.data
  BY <1>1, FlushFacts
<1>3. fsynced \in Nat
  BY <1>1
<1>4. /\ Safe(disk', log, aligned, aligned, fsynced')
      /\ fsynced' \in Nat /\ fsynced' <= aligned
  <2>1. CASE disk' \in {Flush(disk), AfterRead(disk)} /\ fsynced' = fsynced
    <3>1. Safe(disk', log, aligned, aligned, fsynced)
      BY <1>1, <1>3, <2>1, FlushedSafe
    <3> QED
      BY <1>1, <2>1, <3>1
  <2>2. CASE disk' = Sync(disk) /\ fsynced' = aligned
    <3>1. Safe(disk', log, aligned, aligned, aligned)
      BY <1>1, <1>3, <2>2, FlushedSafe
    <3> QED
      BY <1>1, <2>2, <3>1
  <2> QED
    BY <2>1, <2>2
<1>5. /\ aligned > 0 => Len(disk'.index.data) = 3 * disk'.count
      /\ EndsBehind(disk', aligned)
  BY <1>2 DEF KeepInv, EndsBehind
<1> QED
  BY <1>1, <1>4, <1>5 DEF KeepInv

(* A handle that is dropped flushes both files.                            *)
LEMMA DropKeepInv ==
  ASSUME ReadInv, KeepInv, Drop, "io" \notin Faults
  PROVE  KeepInv'
<1>1. /\ up /\ up' = FALSE /\ disk' = Killed(Flush(disk)) /\ firm' = aligned
      /\ log' = log /\ aligned' = aligned /\ fsynced' = fsynced
  BY DEF Drop
<1>2. /\ DiskType(disk) /\ disk.mmap <= Len(disk.cache.data)
      /\ log \in Seq(Lines) /\ aligned \in Nat /\ aligned <= Len(log)
      /\ firm \in 0..aligned /\ fsynced \in 0..firm
      /\ Safe(disk, log, aligned, firm, fsynced) /\ Shows(disk, log, aligned)
  BY <1>1, KeepParts DEF ReadInv
<1>3. fsynced \in Nat /\ fsynced <= aligned
  BY <1>2
<1>4. DiskType(Flush(disk)) /\ Safe(Flush(disk), log, aligned, aligned, fsynced)
  BY <1>2, <1>3, FlushFacts, FlushedSafe
<1>5. /\ Safe(disk', log, aligned, aligned, fsynced)
      /\ disk'.cache.os = Len(disk'.cache.data) /\ disk'.index.os = Len(disk'.index.data)
  BY <1>1, <1>2, <1>3, <1>4, KilledSafe
<1> QED
  BY <1>1, <1>2, <1>3, <1>5 DEF KeepInv

(* A kill loses what the system did not have, which was not flushed.       *)
LEMMA KillKeepInv ==
  ASSUME ReadInv, KeepInv, Kill
  PROVE  KeepInv'
<1>1. /\ up /\ up' = FALSE
      /\ log' = log /\ aligned' = aligned /\ firm' = firm /\ fsynced' = fsynced
      /\ \/ disk' = Killed(disk)
         \/ disk' = Killed(HalfFlushed(disk))
         \/ \E v \in Lines, k \in 1..4 : disk' = Killed(AppendWrites(disk, v, k))
  BY DEF Kill
<1>2. /\ DiskType(disk) /\ log \in Seq(Lines) /\ aligned \in Nat
      /\ firm \in 0..aligned /\ fsynced \in 0..firm /\ firm <= Len(log)
      /\ Safe(disk, log, aligned, firm, fsynced)
  BY KeepParts
<1>3. firm \in Nat /\ fsynced \in Nat /\ fsynced <= firm /\ firm <= aligned
  BY <1>2
<1>4. PICK d : /\ DiskType(d) /\ disk' = Killed(d)
               /\ Safe(d, log, aligned, firm, fsynced)
  <2>1. CASE disk' = Killed(disk)
    BY <1>2, <2>1
  <2>2. CASE \E v \in Lines, k \in 1..4 : disk' = Killed(AppendWrites(disk, v, k))
    <3>1. PICK v \in Lines, k \in 1..4 : disk' = Killed(AppendWrites(disk, v, k))
      BY <2>2
    <3>2. k \in 0..4
      OBVIOUS
    <3>3. /\ aligned > 0 => Len(disk.index.data) = 3 * disk.count
          /\ EndsBehind(disk, aligned)
      BY <1>1 DEF KeepInv
    <3>4. Safe(AppendWrites(disk, v, k), log, aligned, firm, fsynced)
      BY <1>2, <1>3, <3>2, <3>3, WrittenSafe
    <3>5. DiskType(AppendWrites(disk, v, k))
      BY <1>2, <3>2, AppendWritesFacts
    <3> QED
      BY <3>1, <3>4, <3>5
  <2>3. CASE disk' = Killed(HalfFlushed(disk))
    <3>1. /\ DiskType(HalfFlushed(disk))
          /\ Safe(HalfFlushed(disk), log, aligned, firm, fsynced)
      BY <1>2, <1>3, HalfFlushedSafe
    <3> QED
      BY <2>3, <3>1
  <2> QED
    BY <1>1, <2>1, <2>2, <2>3
<1>5. /\ Safe(disk', log, aligned, firm, fsynced)
      /\ disk'.cache.os = Len(disk'.cache.data) /\ disk'.index.os = Len(disk'.index.data)
  BY <1>2, <1>3, <1>4, KilledSafe
<1> QED
  BY <1>1, <1>3, <1>5 DEF KeepInv

(* A power loss loses what was not fsynced, and keeps at least what was.   *)
LEMMA PowerLossKeepInv ==
  ASSUME ReadInv, KeepInv, PowerLoss
  PROVE  KeepInv'
<1>1. /\ up' = FALSE /\ disk' \in PowerLosses(disk) /\ firm' = fsynced
      /\ log' = log /\ aligned' = aligned /\ fsynced' = fsynced
  BY DEF PowerLoss
<1>2. /\ DiskType(disk) /\ log \in Seq(Lines) /\ aligned \in Nat
      /\ firm \in 0..aligned /\ fsynced \in 0..firm /\ firm <= Len(log)
      /\ Safe(disk, log, aligned, firm, fsynced)
  BY KeepParts
<1>3. /\ firm \in Nat /\ fsynced \in Nat /\ fsynced <= aligned /\ fsynced <= Len(log)
  <2>1. Len(log) \in Nat
    BY <1>2
  <2> QED
    BY <1>2, <2>1
<1>4. PICK m \in disk.cache.dur .. disk.cache.os, n \in disk.index.dur .. disk.index.os :
         disk' = Closed(Survives(disk.cache, m), Survives(disk.index, n))
  BY <1>1 DEF PowerLosses
<1>11. /\ disk.cache.os \in 0..Len(disk.cache.data) /\ disk.cache.dur \in 0..disk.cache.os
       /\ disk.index.os \in 0..Len(disk.index.data) /\ disk.index.dur \in 0..disk.index.os
       /\ Len(disk.cache.data) \in Nat /\ Len(disk.index.data) \in Nat
  BY <1>2, DiskData
<1>5. /\ m \in Nat /\ disk.cache.dur <= m /\ m <= Len(disk.cache.data)
      /\ n \in Nat /\ disk.index.dur <= n /\ n <= Len(disk.index.data)
  BY <1>11
<1>6. /\ Ordered(disk, aligned) /\ Holds(disk, log, firm)
      /\ Recorded(disk, fsynced, disk.cache.dur, disk.index.dur)
  BY <1>2 DEF Safe
<1>7. Holds(disk, log, fsynced)
  BY <1>2, <1>3, <1>6, HoldsLess
<1>8. Recorded(disk, fsynced, m, n)
  <2> DEFINE p == disk.cache.dur
             o == disk.index.dur
  <2>1. p \in Nat /\ o \in Nat /\ p <= m /\ o <= n /\ o <= Len(disk.index.data)
    BY <1>5, <1>11
  <2>2. Recorded(disk, fsynced, p, o)
    BY <1>6
  <2> HIDE DEF p, o
  <2> QED
    BY <1>2, <1>3, <1>5, <2>1, <2>2, RecordedMore
<1>9. Safe(disk', log, aligned, fsynced, fsynced)
  BY <1>2, <1>3, <1>4, <1>5, <1>6, <1>7, <1>8, CutSafe
<1>10. disk'.cache.os = Len(disk'.cache.data) /\ disk'.index.os = Len(disk'.index.data)
  <2>1. m \in 0..Len(disk.cache.data) /\ n \in 0..Len(disk.index.data)
    BY <1>5, <1>11
  <2> QED
    BY <1>2, <1>4, <2>1, ClosedFacts, SMTT(30)
<1> QED
  BY <1>1, <1>3, <1>9, <1>10 DEF KeepInv

(* append_line puts its record and its words behind all that is flushed.   *)
LEMMA AppendKeepInv ==
  ASSUME ReadInv, KeepInv, NEW v \in Lines, Append_(v)
  PROVE  KeepInv'
<1> DEFINE e == AppendWrites(disk, v, 4)
           c == disk.count
           x == disk.index.data
           y == e.index.data
<1>1. /\ up /\ up' = up /\ disk' = AppendLine(disk, v) /\ log' = Append(log, v)
      /\ aligned' = IF aligned = c /\ EndsAgree(disk) THEN aligned + 1 ELSE aligned
      /\ firm' = firm /\ fsynced' = fsynced
  BY DEF Append_, AppendCall
<1>2. /\ DiskType(disk) /\ log \in Seq(Lines) /\ Len(log) \in Nat
      /\ aligned \in Nat /\ aligned <= Len(log)
      /\ firm \in 0..aligned /\ fsynced \in 0..firm /\ firm <= Len(log)
      /\ Safe(disk, log, aligned, firm, fsynced)
  BY KeepParts
<1>3. firm \in Nat /\ fsynced \in Nat /\ fsynced <= firm /\ firm <= aligned
  BY <1>2
<1>4. /\ aligned > 0 => Len(x) = 3 * c
      /\ EndsBehind(disk, aligned)
  BY <1>1 DEF KeepInv
<1>5. Safe(e, log, aligned, firm, fsynced)
  <2>1. 4 \in 0..4
    OBVIOUS
  <2> QED
    BY <1>2, <1>3, <1>4, <2>1, WrittenSafe
<1>6. /\ DiskType(e) /\ StartsWith(y, x) /\ Len(y) = Len(x) + 3
      /\ Len(x) = 3 * c => Entry(y, c) = [off |-> disk.off, len |-> Size[v]]
  <2>1. 4 \in 0..4 /\ c \in Nat
    BY <1>2, DiskFields
  <2> QED
    BY <1>2, <2>1, AppendWritesFacts
<1>7. /\ disk'.cache = e.cache /\ disk'.index = e.index
      /\ disk'.off = disk.off + 1 + Size[v] /\ disk'.count = c + 1
  BY <1>1, <1>2, AppendLineFacts
<1>8. /\ c \in Nat /\ disk.off \in Nat /\ Size[v] \in Nat
      /\ Len(x) \in Nat /\ Len(y) \in Nat
  BY <1>2, <1>6, DiskData, DiskFields, SizeAssumption
<1>9. /\ Len(x) <= Len(y) /\ \A i \in 1..Len(x) : y[i] = x[i]
  BY <1>6 DEF StartsWith
<1>10. /\ Ordered(e, aligned) /\ Recorded(e, firm, e.cache.os, e.index.os)
       /\ Recorded(e, fsynced, e.cache.dur, e.index.dur) /\ Holds(e, log, firm)
  BY <1>5 DEF Safe
<1> HIDE DEF e, c, x, y
<1>11. aligned' > 0 => Len(y) = 3 * (c + 1)
  <2>1. CASE aligned = c /\ EndsAgree(disk)
    BY <1>6, <1>8, <2>1 DEF EndsAgree, x, c
  <2>2. CASE ~(aligned = c /\ EndsAgree(disk))
    <3>1. aligned' = aligned
      BY <1>1, <2>2 DEF c
    <3>2. aligned > 0 => Len(y) = 3 * c + 3
      BY <1>4, <1>6
    <3> QED
      BY <1>8, <3>1, <3>2
  <2> QED
    BY <2>1, <2>2
<1>12. \A id \in 0..aligned - 1 : EndOf(Entry(y, id)) <= disk.off
  <2> SUFFICES ASSUME NEW id \in 0..aligned - 1
               PROVE  EndOf(Entry(y, id)) <= disk.off
    OBVIOUS
  <2>1. EndOf(Entry(x, id)) <= disk.off
    BY <1>4 DEF EndsBehind, x
  <2>2. id \in Nat /\ 3 * id + 3 <= Len(x)
    <3>1. aligned <= c
      BY <1>1, <1>2, <1>8 DEF ReadInv, c
    <3> QED
      BY <1>2, <1>4, <1>8, <3>1
  <2>3. Entry(y, id) = Entry(x, id)
    BY <1>8, <1>9, <2>2, EntryStable, ZenonT(60)
  <2> QED
    BY <2>1, <2>3
<1>13. EndsBehind(disk', aligned')
  <2> SUFFICES ASSUME NEW id \in 0..aligned' - 1
               PROVE  EndOf(Entry(y, id)) <= disk'.off
    BY <1>7 DEF EndsBehind, y
  <2>1. CASE id \in 0..aligned - 1
    <3>1. EndOf(Entry(y, id)) <= disk.off
      BY <1>12, <2>1
    <3>2. EndOf(Entry(y, id)) \in Nat
      <4>1. id \in Nat /\ 3 * id + 3 <= Len(y)
        <5>1. aligned <= c
          BY <1>1, <1>2, <1>8 DEF ReadInv, c
        <5>2. Len(y) = 3 * (c + 1)
          BY <1>1, <1>2, <1>11, <2>1
        <5> QED
          BY <1>2, <1>8, <2>1, <5>1, <5>2
      <4> QED
        BY <1>6, <4>1, DiskData, EntryFacts DEF y
    <3> QED
      BY <1>7, <1>8, <3>1, <3>2
  <2>2. CASE id \notin 0..aligned - 1
    <3>1. aligned = c /\ EndsAgree(disk) /\ id = c
      BY <1>1, <1>2, <2>2
    <3>2. Entry(y, c) = [off |-> disk.off, len |-> Size[v]]
      BY <1>6, <3>1 DEF EndsAgree, x, c
    <3>3. EndOf(Entry(y, id)) = disk.off + 1 + Size[v]
      BY <3>1, <3>2 DEF EndOf
    <3> QED
      BY <1>7, <1>8, <3>3
  <2> QED
    BY <2>1, <2>2
<1>14. Ordered(disk', aligned')
  <2> SUFFICES ASSUME NEW id \in 0..aligned' - 1, NEW k \in Nat, id < k, 3 * k + 3 <= Len(y)
               PROVE  EndOf(Entry(y, id)) <= Entry(y, k).off
    BY <1>7 DEF Ordered, y
  <2>1. CASE id \in 0..aligned - 1
    BY <1>10, <2>1 DEF Ordered, y
  <2>2. CASE id \notin 0..aligned - 1
    <3>1. aligned = c /\ id = c /\ aligned' > 0
      BY <1>1, <1>2, <2>2
    <3> QED
      BY <1>8, <1>11, <3>1
  <2> QED
    BY <2>1, <2>2
<1>15. Holds(disk', log', firm)
  <2> SUFFICES ASSUME NEW id \in 0..firm - 1
               PROVE  Stored(disk', id, log'[id + 1])
    BY DEF Holds
  <2>1. Stored(e, id, log[id + 1])
    BY <1>10 DEF Holds
  <2>2. id + 1 \in 1..Len(log)
    BY <1>2, <1>3
  <2>3. log'[id + 1] = log[id + 1]
    BY <1>1, <1>2, <2>2, AppendProperties
  <2> QED
    BY <1>7, <2>1, <2>3 DEF Stored
<1>16. /\ Recorded(disk', firm, disk'.cache.os, disk'.index.os)
       /\ Recorded(disk', fsynced, disk'.cache.dur, disk'.index.dur)
  BY <1>7, <1>10 DEF Recorded
<1>17. Safe(disk', log', aligned', firm', fsynced')
  BY <1>1, <1>14, <1>15, <1>16 DEF Safe
<1>18. firm <= aligned'
  BY <1>1, <1>2, <1>3
<1> QED
  BY <1>1, <1>3, <1>7, <1>11, <1>13, <1>17, <1>18 DEF KeepInv, y

(* An open finds what was flushed, and begins to write behind it.          *)
LEMMA ReopenKeepInv ==
  ASSUME ReadInv, KeepInv, Reopen, "io" \notin Faults
  PROVE  KeepInv'
<1>1. /\ ~up /\ firm' = firm /\ fsynced' = fsynced
      /\ \/ up' = TRUE /\ disk' = Open(disk)
         \/ up' = FALSE /\ OpenCuts(disk) /\ disk' = AfterFailedOpen(disk)
      /\ log' = IF up' THEN SubSeq(log, 1, Lesser(Len(log), disk'.count)) ELSE log
      /\ aligned' = IF up' THEN Whole(disk', log, Lesser(aligned, disk'.count)) ELSE aligned
  BY DEF Reopen, OpenFails
<1>2. /\ DiskType(disk) /\ log \in Seq(Lines) /\ Len(log) \in Nat
      /\ aligned \in Nat /\ aligned <= Len(log)
      /\ firm \in 0..aligned /\ fsynced \in 0..firm /\ firm <= Len(log)
      /\ Safe(disk, log, aligned, firm, fsynced)
  BY KeepParts
<1>3. firm \in Nat /\ fsynced \in Nat /\ fsynced <= firm /\ firm <= aligned
  BY <1>2
<1>4. disk.cache.os = Len(disk.cache.data) /\ disk.index.os = Len(disk.index.data)
  BY <1>1 DEF KeepInv
<1>5. CASE up' = TRUE /\ disk' = Open(disk)
  <2>1. PICK n \in Nat : n = disk'.count
    BY <1>2, <1>5, OpenParts
  <2>2. firm <= n /\ Shows(disk', log, firm)
    BY <1>2, <1>4, <1>5, <2>1, OpenShows
  <2> DEFINE m == Lesser(aligned, n)
             b == Whole(disk', log, m)
  <2>3. m \in Nat /\ m <= aligned /\ m <= n /\ firm \in 0..m
    BY <1>2, <1>3, <2>2 DEF Lesser
  <2>4. b \in 0..m /\ firm <= b
    BY <2>2, <2>3, WholeFacts
  <2>5. aligned' = b
    BY <1>1, <1>5, <2>1
  <2> HIDE DEF m, b
  <2>6. b \in firm..aligned /\ b <= n
    BY <1>2, <1>3, <2>3, <2>4
  <2>7. /\ Safe(disk', log, b, firm, fsynced) /\ EndsBehind(disk', b)
        /\ b > 0 => Len(disk'.index.data) = 3 * disk'.count
    BY <1>2, <1>4, <1>5, <2>1, <2>6, OpenSafe
  <2>8. Holds(disk', log', firm)
    <3> SUFFICES ASSUME NEW id \in 0..firm - 1
                 PROVE  Stored(disk', id, log'[id + 1])
      BY DEF Holds
    <3>1. Stored(disk', id, log[id + 1])
      BY <2>7 DEF Safe, Holds
    <3>2. id + 1 \in 1..Lesser(Len(log), n)
      BY <1>2, <1>3, <2>2 DEF Lesser
    <3>3. log' = SubSeq(log, 1, Lesser(Len(log), n))
      BY <1>1, <1>5, <2>1
    <3>4. log'[id + 1] = log[id + 1]
      BY <3>2, <3>3, OpenedLog
    <3> QED
      BY <3>1, <3>4
  <2>9. Safe(disk', log', b, firm, fsynced)
    BY <2>7, <2>8 DEF Safe
  <2> QED
    BY <1>1, <1>3, <1>5, <2>4, <2>5, <2>7, <2>9 DEF KeepInv
<1>6. CASE up' = FALSE /\ OpenCuts(disk) /\ disk' = AfterFailedOpen(disk)
  <2>1. Safe(disk', log, aligned, firm, fsynced)
    BY <1>2, <1>4, <1>6, FailedOpenSafe
  <2>2. disk'.cache.os = Len(disk'.cache.data) /\ disk'.index.os = Len(disk'.index.data)
    BY <1>2, <1>4, <1>6, FailedOpenFacts
  <2> QED
    BY <1>1, <1>3, <1>6, <2>1, <2>2 DEF KeepInv
<1> QED
  BY <1>1, <1>5, <1>6

(* Every call and every fault but a failed write.                          *)
LEMMA StepKeepInv ==
  ASSUME ReadInv, KeepInv, [Next]_vars, "io" \notin Faults
  PROVE  KeepInv'
<1>1. CASE \E v \in Lines : Append_(v)
  BY <1>1, AppendKeepInv
<1>2. CASE \E v \in Lines : AppendFails(v)
  BY <1>2 DEF AppendFails
<1>3. CASE FlushOp
  BY <1>3, FlushKeepInv DEF FlushOp
<1>4. CASE FlushFails
  BY <1>4 DEF FlushFails
<1>5. CASE SyncOp
  BY <1>5, FlushKeepInv DEF SyncOp
<1>6. CASE \E id \in 0..disk.count - 1 : ReadOp(id)
  BY <1>6, FlushKeepInv DEF ReadOp
<1>7. CASE Drop
  BY <1>7, DropKeepInv
<1>8. CASE Kill
  BY <1>8, KillKeepInv
<1>9. CASE PowerLoss
  BY <1>9, PowerLossKeepInv
<1>10. CASE Reopen
  BY <1>10, ReopenKeepInv
<1>11. CASE UNCHANGED vars
  BY <1>11 DEF vars, KeepInv, Safe, Ordered, Recorded, Holds, EndsBehind, Stored
<1> QED
  BY <1>1, <1>2, <1>3, <1>4, <1>5, <1>6, <1>7, <1>8, <1>9, <1>10, <1>11 DEF Next

(* As long as no write fails, the leading lines that were flushed at the   *)
(* true end of the files, or fsynced if the power fails, are counted by    *)
(* every later open and read back for ever after (append_line, flush,      *)
(* sync_to_disk, recover), whatever a kill or a power loss cuts off, how   *)
(* the two files are cut against each other, and whatever is appended.     *)
THEOREM FlushedLinesAreKept ==
  ASSUME "io" \notin Faults
  PROVE  Spec => []FlushedLinesSurvive
<1>1. Init => ReadInv /\ KeepInv
  BY InitReadInv, InitKeepInv
<1>2. ReadInv /\ KeepInv /\ [Next]_vars => (ReadInv /\ KeepInv)'
  BY StepReadInv, StepKeepInv
<1>3. ASSUME ReadInv, KeepInv
      PROVE  FlushedLinesSurvive
  <2> SUFFICES ASSUME up
               PROVE  firm <= disk.count /\ Shows(disk, log, firm)
    BY DEF FlushedLinesSurvive, Shows
  <2>1. /\ firm \in 0..aligned /\ aligned \in Nat /\ aligned <= Len(log) /\ Len(log) \in Nat
        /\ Len(log) <= disk.count /\ disk.count \in Nat /\ Shows(disk, log, aligned)
    BY <1>3, KeepParts, DiskFields DEF ReadInv
  <2>2. firm <= disk.count
    BY <2>1
  <2> QED
    BY <2>1, <2>2, ShowsLess
<1> QED
  BY <1>1, <1>2, <1>3, PTL DEF Spec
=============================================================================
