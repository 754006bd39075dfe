------------------------- MODULE DiskCacheOpsProofs -------------------------
(***************************************************************************)
(* What the operators of DiskCacheOps do to a cache, for every size of     *)
(* line, buffer and word: the lemmas that the proofs about DiskCache and   *)
(* about VirtualBuffer share.                                              *)
(***************************************************************************)
EXTENDS DiskCacheOps, SequenceTheorems, FiniteSetTheorems, TLAPS

USE DEF IndexWords, HeaderWords

-----------------------------------------------------------------------------
(* Streams.                                                                *)

(* x is at the start of y.                                                 *)
StartsWith(y, x) ==
  Len(x) <= Len(y) /\ \A i \in 1..Len(x) : y[i] = x[i]

(* write_all adds to the data, never takes from what the system has, and   *)
(* leaves the file alone when the words fit in the buffer.                 *)
LEMMA WriteFacts ==
  ASSUME NEW W, NEW s, StreamType(s, W), NEW w \in Seq(W), NEW cap \in Nat \ {0}
  PROVE  /\ StreamType(Write(s, w, cap), W)
         /\ Len(Write(s, w, cap).data) = Len(s.data) + Len(w)
         /\ s.os <= Write(s, w, cap).os
         /\ Len(w) < cap /\ ~Spills(s, Len(w), cap) => Write(s, w, cap).os = s.os
<1>1. /\ s \in [data : Seq(W), os : Nat, dur : Nat]
      /\ s.data \o w \in Seq(W)
      /\ Len(s.data \o w) = Len(s.data) + Len(w)
      /\ Len(s.data) \in Nat /\ Len(w) \in Nat
  BY DEF StreamType
<1> QED
  BY <1>1 DEF StreamType, Write, Spills, Buffered

(* What was in the stream stays, and the new words follow it.              *)
LEMMA WriteData ==
  ASSUME NEW W, NEW s, StreamType(s, W), NEW w \in Seq(W), NEW cap \in Nat \ {0}
  PROVE  /\ StartsWith(Write(s, w, cap).data, s.data)
         /\ \A i \in 1..Len(w) : Write(s, w, cap).data[Len(s.data) + i] = w[i]
<1>1. s.data \in Seq(W)
  BY DEF StreamType
<1>2. Write(s, w, cap).data = s.data \o w
  BY DEF Write
<1> QED
  BY <1>1, <1>2 DEF StartsWith

(* A stream of which the first n words are left.                           *)
LEMMA SurvivesFacts ==
  ASSUME NEW W, NEW s, StreamType(s, W), NEW n \in 0..Len(s.data)
  PROVE  /\ StreamType(Survives(s, n), W)
         /\ Survives(s, n).os = n
         /\ Len(Survives(s, n).data) = n
         /\ \A i \in 1..n : Survives(s, n).data[i] = s.data[i]
<1>1. /\ SubSeq(s.data, 1, n) \in Seq(W)
      /\ Len(SubSeq(s.data, 1, n)) = n
      /\ \A i \in 1..n : SubSeq(s.data, 1, n)[i] = s.data[i]
  BY DEF StreamType
<1> QED
  BY <1>1 DEF StreamType, Survives

(* A flush hands the system all of it and changes no data.                 *)
LEMMA FlushStreamFacts ==
  ASSUME NEW W, NEW s, StreamType(s, W)
  PROVE  /\ StreamType(FlushStream(s), W)
         /\ FlushStream(s).data = s.data /\ FlushStream(s).os = Len(s.data)
<1>1. Len(s.data) \in Nat
  BY DEF StreamType
<1> QED
  BY <1>1 DEF StreamType, FlushStream

(* A sync of the file changes neither the data nor what the system has.    *)
LEMMA SyncStreamFacts ==
  ASSUME NEW W, NEW s, StreamType(s, W)
  PROVE  /\ StreamType(SyncStream(s), W)
         /\ SyncStream(s).data = s.data /\ SyncStream(s).os = s.os
BY DEF StreamType, SyncStream

(* The fields of a disk cache and their types.                             *)
LEMMA DiskFields ==
  ASSUME NEW d, DiskType(d)
  PROVE  /\ StreamType(d.cache, CacheWord) /\ StreamType(d.index, Nat)
         /\ d.off \in Nat /\ d.count \in Nat /\ d.mmap \in Nat \cup {NoMmap}
BY DEF DiskType

(* The words of its two files, and how far they have got.                  *)
LEMMA DiskData ==
  ASSUME NEW d, DiskType(d)
  PROVE  /\ d.cache.data \in Seq(CacheWord) /\ Len(d.cache.data) \in Nat
         /\ d.index.data \in Seq(Nat) /\ Len(d.index.data) \in Nat
         /\ d.cache.os \in 0..Len(d.cache.data) /\ d.cache.dur \in 0..d.cache.os
         /\ d.index.os \in 0..Len(d.index.data) /\ d.index.dur \in 0..d.index.os
BY DEF DiskType, StreamType

(* A disk cache put together from its parts has these parts.               *)
LEMMA DiskParts ==
  ASSUME NEW c, NEW x, NEW o, NEW n, NEW m
  PROVE  /\ Disk(c, x, o, n, m).cache = c /\ Disk(c, x, o, n, m).index = x
         /\ Disk(c, x, o, n, m).off = o /\ Disk(c, x, o, n, m).count = n
         /\ Disk(c, x, o, n, m).mmap = m
BY DEF Disk

(* It is well-typed when its parts are.                                    *)
LEMMA DiskHasType ==
  ASSUME NEW c, NEW x, NEW o, NEW n, NEW m,
         StreamType(c, CacheWord), StreamType(x, Nat),
         o \in Nat, n \in Nat, m \in Nat \cup {NoMmap}
  PROVE  DiskType(Disk(c, x, o, n, m))
BY DEF DiskType, StreamType, Disk

(* A record has the same value in every index that agrees on its words.    *)
LEMMA EntryStable ==
  ASSUME NEW x, NEW y, NEW n \in Nat, \A i \in 1..n : y[i] = x[i],
         NEW k \in Nat, 3 * k + 3 <= n
  PROVE  Entry(y, k) = Entry(x, k)
<1>1. 3 * k + 1 \in 1..n /\ 3 * k + 2 \in 1..n /\ 3 * k + 3 \in 1..n
  OBVIOUS
<1> QED
  BY <1>1 DEF Entry

(* Index records that lie in a common beginning of two files are the same. *)
LEMMA EntriesSame ==
  ASSUME NEW x, NEW y, NEW n \in Nat, \A i \in 1..n : y[i] = x[i]
  PROVE  \A k \in Nat : 3 * k + 3 <= n => Entry(y, k) = Entry(x, k)
BY EntryStable

(* A record ends at a number above zero, its length being at least one.    *)
LEMMA EntryType ==
  ASSUME NEW x \in Seq(Nat), NEW k \in Nat, 3 * k + 3 <= Len(x)
  PROVE  EndOf(Entry(x, k)) \in Nat /\ EndOf(Entry(x, k)) >= 1
<1>1. x[3 * k + 1] \in Nat /\ x[3 * k + 2] \in Nat /\ x[3 * k + 3] \in Nat
  OBVIOUS
<1> DEFINE low == x[3 * k + 1]
           high == Radix * x[3 * k + 2]
           len == x[3 * k + 3]
<1>2. low \in Nat /\ high \in Nat /\ len \in Nat
  BY <1>1, RadixAssumption
<1>3. EndOf(Entry(x, k)) = low + high + 1 + len
  BY DEF Entry, EndOf
<1> HIDE DEF low, high, len
<1> QED
  BY <1>2, <1>3

-----------------------------------------------------------------------------
(* append_line.                                                            *)

(* The words a line is written as: a header, its content and its length.   *)
LEMMA WordFacts ==
  ASSUME NEW v \in Lines
  PROVE  /\ <<Header(v)>> \in Seq(CacheWord) /\ Len(<<Header(v)>>) = 1
         /\ Content(v) \in Seq(CacheWord) /\ Len(Content(v)) = Size[v]
         /\ <<Size[v]>> \in Seq(Nat) /\ Len(<<Size[v]>>) = 1
<1>1. Size[v] \in Nat
  BY SizeAssumption
<1>2. Header(v) \in CacheWord
  BY <1>1 DEF Header, CacheWord
<1>3. \A k \in 1..Size[v] : [line |-> v, at |-> k] \in CacheWord
  BY <1>1 DEF CacheWord
<1>4. Content(v) \in Seq(CacheWord) /\ Len(Content(v)) = Size[v]
  BY <1>1, <1>3 DEF Content
<1> QED
  BY <1>1, <1>2, <1>4

(* The two words of an offset are put together to that offset again.       *)
LEMMA OffsetFacts ==
  ASSUME NEW off \in Nat
  PROVE  /\ OffsetWords(off) \in Seq(Nat) /\ Len(OffsetWords(off)) = 2
         /\ OffsetWords(off)[1] + Radix * OffsetWords(off)[2] = off
<1>1. /\ off % Radix \in Nat /\ off \div Radix \in Nat
      /\ (off % Radix) + Radix * (off \div Radix) = off
  BY RadixAssumption
<1> QED
  BY <1>1 DEF OffsetWords

(* Any number of the four writes: both streams only grow, and the index    *)
(* file does not if its buffer has room for a record.                      *)
LEMMA CacheWrites ==
  ASSUME NEW c, StreamType(c, CacheWord), NEW v \in Lines, NEW k \in 0..4
  PROVE  LET c1 == IF k >= 1 THEN Write(c, <<Header(v)>>, CacheCap) ELSE c
             c2 == IF k >= 2 THEN Write(c1, Content(v), CacheCap) ELSE c1
         IN /\ StreamType(c2, CacheWord)
            /\ c.os <= c2.os
            /\ Len(c.data) <= Len(c2.data)
            /\ k >= 2 => Len(c2.data) = Len(c.data) + 1 + Size[v]
<1>1. /\ Size[v] \in Nat /\ CacheCap \in Nat \ {0}
      /\ <<Header(v)>> \in Seq(CacheWord) /\ Len(<<Header(v)>>) = 1
      /\ Content(v) \in Seq(CacheWord) /\ Len(Content(v)) = Size[v]
  BY SizeAssumption, CapAssumption, WordFacts
<1> DEFINE h == Write(c, <<Header(v)>>, CacheCap)
           p == Write(h, Content(v), CacheCap)
<1>2. /\ StreamType(h, CacheWord) /\ c.os <= h.os
      /\ Len(h.data) = Len(c.data) + Len(<<Header(v)>>)
  BY <1>1, WriteFacts
<1> HIDE DEF h
<1>3. /\ StreamType(p, CacheWord) /\ h.os <= p.os
      /\ Len(p.data) = Len(h.data) + Len(Content(v))
  BY <1>1, <1>2, WriteFacts, ZenonT(60)
<1> HIDE DEF p
<1>4. /\ c.os \in Nat /\ h.os \in Nat /\ p.os \in Nat
      /\ Len(c.data) \in Nat /\ Len(h.data) \in Nat /\ Len(p.data) \in Nat
  BY <1>2, <1>3 DEF StreamType
<1>5. CASE k = 0
  BY <1>4, <1>5
<1>6. CASE k = 1
  BY <1>2, <1>4, <1>6 DEF h
<1>7. CASE k >= 2
  <2>1. /\ c.os <= p.os /\ Len(c.data) <= Len(p.data)
        /\ Len(p.data) = Len(c.data) + 1 + Size[v]
    <3>1. /\ Len(p.data) = Len(h.data) + Size[v]
          /\ Len(h.data) = Len(c.data) + 1
          /\ c.os <= h.os /\ h.os <= p.os
      BY <1>1, <1>2, <1>3
    <3>2. Size[v] \in Nat
      BY <1>1
    <3> QED
      BY <1>4, <3>1, <3>2
  <2> QED
    BY <1>3, <1>7, <2>1 DEF h, p
<1> QED
  BY <1>5, <1>6, <1>7

(* The last two of the four writes of append_line: the index file only     *)
(* grows, not at all while the record fits in the buffer, and all four     *)
(* make one whole record of it.                                            *)
LEMMA IndexWrites ==
  ASSUME NEW x, StreamType(x, Nat), NEW off \in Nat, NEW v \in Lines, NEW k \in 0..4
  PROVE  LET x1 == IF k >= 3 THEN Write(x, OffsetWords(off), IndexCap) ELSE x
             x2 == IF k >= 4 THEN Write(x1, <<Size[v]>>, IndexCap) ELSE x1
         IN /\ StreamType(x2, Nat)
            /\ StartsWith(x2.data, x.data)
            /\ x.os <= x2.os
            /\ Len(x.data) - x.os + 3 <= IndexCap => x2.os = x.os
            /\ k < 4 => Len(x2.data) < Len(x.data) + 3
            /\ k = 4 => /\ Len(x2.data) = Len(x.data) + 3
                        /\ \A n \in Nat : Len(x.data) = 3 * n
                             => Entry(x2.data, n) = [off |-> off, len |-> Size[v]]
<1> DEFINE w == OffsetWords(off)
           u == <<Size[v]>>
           o == Write(x, w, IndexCap)
           l == Write(o, u, IndexCap)
<1>1. /\ IndexCap \in Nat \ {0} /\ w \in Seq(Nat) /\ u \in Seq(Nat)
  BY CapAssumption, OffsetFacts, WordFacts
<1>2. Len(w) = 2 /\ Len(u) = 1 /\ u[1] = Size[v]
  BY OffsetFacts
<1> HIDE DEF w, u
<1>3. /\ StreamType(o, Nat) /\ x.os <= o.os
      /\ Len(o.data) = Len(x.data) + Len(w)
      /\ Len(w) < IndexCap /\ ~Spills(x, Len(w), IndexCap) => o.os = x.os
  BY <1>1, WriteFacts
<1>4. /\ StartsWith(o.data, x.data)
      /\ \A i \in 1..Len(w) : o.data[Len(x.data) + i] = w[i]
  BY <1>1, WriteData
<1>5. StreamType(o, Nat)
  BY <1>3
<1> HIDE DEF o
<1>6. /\ StreamType(l, Nat) /\ o.os <= l.os
      /\ Len(l.data) = Len(o.data) + Len(u)
      /\ Len(u) < IndexCap /\ ~Spills(o, Len(u), IndexCap) => l.os = o.os
  BY <1>1, <1>5, WriteFacts
<1>7. /\ StartsWith(l.data, o.data)
      /\ \A i \in 1..Len(u) : l.data[Len(o.data) + i] = u[i]
  BY <1>1, <1>5, WriteData
<1> HIDE DEF l
<1>8. /\ x.os \in Nat /\ o.os \in Nat /\ l.os \in Nat
      /\ x.os <= Len(x.data) /\ o.os <= Len(o.data)
      /\ Len(x.data) \in Nat /\ Len(o.data) = Len(x.data) + 2 /\ Len(l.data) = Len(x.data) + 3
  BY <1>2, <1>3, <1>6 DEF StreamType
<1>9. StartsWith(x.data, x.data) /\ StartsWith(l.data, x.data)
  BY <1>4, <1>7, <1>8 DEF StartsWith
<1>10. ASSUME Len(x.data) - x.os + 3 <= IndexCap
       PROVE  o.os = x.os /\ l.os = x.os
  <2>1. IndexCap \in Nat
    BY <1>1
  <2>2. Len(w) < IndexCap /\ ~Spills(x, Len(w), IndexCap)
    BY <1>2, <1>8, <1>10, <2>1 DEF Spills, Buffered
  <2>3. o.os = x.os
    BY <1>3, <2>2
  <2>4. Len(u) < IndexCap /\ ~Spills(o, Len(u), IndexCap)
    BY <1>2, <1>8, <1>10, <2>1, <2>3 DEF Spills, Buffered
  <2> QED
    BY <1>6, <2>3, <2>4
<1>11. ASSUME NEW n \in Nat, Len(x.data) = 3 * n
       PROVE  Entry(l.data, n) = [off |-> off, len |-> Size[v]]
  <2>1. /\ o.data[3 * n + 1] = w[1] /\ o.data[3 * n + 2] = w[2]
    BY <1>2, <1>4, <1>8, <1>11
  <2>2. Len(o.data) = 3 * n + 2
    BY <1>8, <1>11
  <2>3. /\ l.data[3 * n + 1] = o.data[3 * n + 1]
        /\ l.data[3 * n + 2] = o.data[3 * n + 2]
    <3>1. \A i \in 1..Len(o.data) : l.data[i] = o.data[i]
      BY <1>7 DEF StartsWith
    <3>2. 3 * n + 1 \in 1..Len(o.data) /\ 3 * n + 2 \in 1..Len(o.data)
      BY <2>2
    <3> QED
      BY <3>1, <3>2
  <2>4. l.data[Len(o.data) + 1] = u[1]
    BY <1>2, <1>7
  <2>5. Len(o.data) + 1 = 3 * n + 3
    BY <2>2
  <2> QED
    BY <1>2, <2>1, <2>3, <2>4, <2>5, OffsetFacts DEF Entry, w
<1>12. CASE k < 3
  <2>1. x.os <= x.os /\ Len(x.data) < Len(x.data) + 3
    BY <1>8
  <2> QED
    BY <1>9, <1>12, <2>1
<1>13. CASE k = 3
  <2>1. x.os <= o.os /\ Len(o.data) < Len(x.data) + 3
    BY <1>3, <1>8
  <2> QED
    BY <1>4, <1>5, <1>10, <1>13, <2>1 DEF o, w
<1>14. CASE k = 4
  <2>1. /\ StreamType(l, Nat) /\ StartsWith(l.data, x.data)
        /\ x.os <= l.os
        /\ Len(x.data) - x.os + 3 <= IndexCap => l.os = x.os
        /\ Len(l.data) = Len(x.data) + 3
    BY <1>3, <1>6, <1>8, <1>9, <1>10
  <2> QED
    BY <1>11, <1>14, <2>1 DEF l, o, w, u
<1> QED
  BY <1>12, <1>13, <1>14

(* append_line after k of its four writes: what it adds to both files, and *)
(* that the handle's own counters do not move yet.                         *)
LEMMA AppendWritesFacts ==
  ASSUME NEW d, DiskType(d), NEW v \in Lines, NEW k \in 0..4
  PROVE  LET a == AppendWrites(d, v, k)
         IN /\ DiskType(a)
            /\ a.off = d.off /\ a.count = d.count /\ a.mmap = d.mmap
            /\ d.cache.os <= a.cache.os
            /\ d.index.os <= a.index.os
            /\ Len(d.cache.data) <= Len(a.cache.data)
            /\ StartsWith(a.index.data, d.index.data)
            /\ k < 4 => Len(a.index.data) < Len(d.index.data) + 3
            /\ Len(d.index.data) - d.index.os + 3 <= IndexCap
                 => a.index.os = d.index.os
            /\ k = 4 => /\ Len(a.cache.data) = Len(d.cache.data) + 1 + Size[v]
                        /\ Len(a.index.data) = Len(d.index.data) + 3
                        /\ \A n \in Nat : Len(d.index.data) = 3 * n
                             => Entry(a.index.data, n) = [off |-> d.off, len |-> Size[v]]
<1> DEFINE c1 == IF k >= 1 THEN Write(d.cache, <<Header(v)>>, CacheCap) ELSE d.cache
           c2 == IF k >= 2 THEN Write(c1, Content(v), CacheCap) ELSE c1
           x1 == IF k >= 3 THEN Write(d.index, OffsetWords(d.off), IndexCap) ELSE d.index
           x2 == IF k >= 4 THEN Write(x1, <<Size[v]>>, IndexCap) ELSE x1
           a == AppendWrites(d, v, k)
<1>1. /\ StreamType(d.cache, CacheWord) /\ StreamType(d.index, Nat) /\ d.off \in Nat
  BY DEF DiskType
<1>2. /\ StreamType(c2, CacheWord) /\ d.cache.os <= c2.os
      /\ Len(d.cache.data) <= Len(c2.data)
      /\ k >= 2 => Len(c2.data) = Len(d.cache.data) + 1 + Size[v]
  BY <1>1, CacheWrites
<1>3. /\ StreamType(x2, Nat) /\ StartsWith(x2.data, d.index.data)
      /\ d.index.os <= x2.os
      /\ k < 4 => Len(x2.data) < Len(d.index.data) + 3
      /\ Len(d.index.data) - d.index.os + 3 <= IndexCap => x2.os = d.index.os
      /\ k = 4 => /\ Len(x2.data) = Len(d.index.data) + 3
                  /\ \A n \in Nat : Len(d.index.data) = 3 * n
                       => Entry(x2.data, n) = [off |-> d.off, len |-> Size[v]]
  BY <1>1, IndexWrites, ZenonT(60)
<1>4. a = Disk(c2, x2, d.off, d.count, d.mmap)
  BY DEF AppendWrites
<1> HIDE DEF c1, c2, x1, x2, a
<1>5. /\ DiskType(a) /\ a.cache = c2 /\ a.index = x2
      /\ a.off = d.off /\ a.count = d.count /\ a.mmap = d.mmap
  BY <1>2, <1>3, <1>4, DiskFields, DiskParts, DiskHasType
<1> QED
  BY <1>2, <1>3, <1>5 DEF a

(* flush, sync and the flush before a read hand both files to the system   *)
(* and change nothing a reader sees.                                       *)
LEMMA FlushFacts ==
  ASSUME NEW d, DiskType(d), NEW e \in {Flush(d), Sync(d), AfterRead(d)}
  PROVE  /\ DiskType(e) /\ e.off = d.off /\ e.count = d.count
         /\ e.cache.data = d.cache.data /\ e.cache.os = Len(d.cache.data)
         /\ e.index.data = d.index.data /\ e.index.os = Len(d.index.data)
<1> DEFINE fc == FlushStream(d.cache)
           fx == FlushStream(d.index)
           sc == SyncStream(fc)
           sx == SyncStream(fx)
<1>1. /\ StreamType(d.cache, CacheWord) /\ StreamType(d.index, Nat)
      /\ d.off \in Nat /\ d.count \in Nat /\ d.mmap \in Nat \cup {NoMmap}
  BY DiskFields
<1>2. /\ StreamType(fc, CacheWord) /\ fc.data = d.cache.data /\ fc.os = Len(d.cache.data)
      /\ StreamType(fx, Nat) /\ fx.data = d.index.data /\ fx.os = Len(d.index.data)
  BY <1>1, FlushStreamFacts
<1>3. /\ StreamType(sc, CacheWord) /\ sc.data = fc.data /\ sc.os = fc.os
      /\ StreamType(sx, Nat) /\ sx.data = fx.data /\ sx.os = fx.os
  BY <1>2, SyncStreamFacts
<1>4. Flush(d) = Disk(fc, fx, d.off, d.count, d.mmap)
  BY DEF Flush
<1>5. Flush(d).cache = fc /\ Flush(d).index = fx
  BY <1>4 DEF Disk
<1>6. Sync(d) = Disk(sc, sx, d.off, d.count, d.mmap)
  BY <1>5 DEF Sync
<1>7. AfterRead(d) = Disk(fc, fx, d.off, d.count, IF d.mmap = NoMmap THEN fc.os ELSE d.mmap)
  BY <1>5 DEF AfterRead
<1> HIDE DEF fc, fx, sc, sx
<1>8. CASE e = Flush(d)
  BY <1>1, <1>2, <1>4, <1>8, DiskParts, DiskHasType
<1>9. CASE e = Sync(d)
  BY <1>1, <1>2, <1>3, <1>6, <1>9, DiskParts, DiskHasType
<1>10. CASE e = AfterRead(d)
  <2> DEFINE m == IF d.mmap = NoMmap THEN fc.os ELSE d.mmap
  <2>1. m \in Nat \cup {NoMmap}
    BY <1>1, <1>2 DEF StreamType
  <2>2. e = Disk(fc, fx, d.off, d.count, m)
    BY <1>7, <1>10
  <2> HIDE DEF m
  <2> QED
    BY <1>1, <1>2, <2>1, <2>2, DiskParts, DiskHasType
<1> QED
  BY <1>8, <1>9, <1>10


-----------------------------------------------------------------------------
(* Sequences that begin alike.                                             *)

(* Two sequences that begin alike have the same stretches there.           *)
LEMMA SameStretch ==
  ASSUME NEW W, NEW x \in Seq(W), NEW y \in Seq(W), NEW n \in Nat,
         n <= Len(x), n <= Len(y), \A i \in 1..n : y[i] = x[i],
         NEW a \in Nat \ {0}, NEW b \in 0..n
  PROVE  SubSeq(y, a, b) = SubSeq(x, a, b)
<1> DEFINE s == SubSeq(x, a, b)
           t == SubSeq(y, a, b)
<1>1. \A i \in a..b : x[i] \in W /\ y[i] \in W /\ y[i] = x[i]
  OBVIOUS
<1>2. /\ s \in Seq(W) /\ t \in Seq(W)
      /\ Len(s) = IF a <= b THEN b - a + 1 ELSE 0
      /\ Len(t) = IF a <= b THEN b - a + 1 ELSE 0
      /\ \A i \in 1..b - a + 1 : s[i] = x[a + i - 1] /\ t[i] = y[a + i - 1]
  BY <1>1, SubSeqProperties
<1>3. \A i \in 1..Len(s) : s[i] = t[i]
  <2> SUFFICES ASSUME NEW i \in 1..Len(s)
               PROVE  s[i] = t[i]
    OBVIOUS
  <2>1. i \in 1..b - a + 1 /\ a + i - 1 \in a..b
    BY <1>2
  <2> QED
    BY <1>1, <1>2, <2>1
<1> HIDE DEF s, t
<1> QED
  BY <1>2, <1>3, SeqEqual

(* A beginning of a beginning is a beginning.                              *)
LEMMA StartsWithTrans ==
  ASSUME NEW W, NEW x \in Seq(W), NEW y \in Seq(W), NEW z \in Seq(W),
         StartsWith(y, x), StartsWith(z, y)
  PROVE  StartsWith(z, x)
<1>1. Len(x) \in Nat /\ Len(y) \in Nat /\ Len(z) \in Nat
  OBVIOUS
<1> QED
  BY <1>1, SMTT(30) DEF StartsWith

(* A whole append puts the payload right behind the header, which is       *)
(* written where the cache file ends.                                      *)
LEMMA AppendContent ==
  ASSUME NEW d, DiskType(d), NEW v \in Lines, NEW k \in 0..4
  PROVE  LET a == AppendWrites(d, v, k)
             n == Len(d.cache.data)
         IN /\ StartsWith(a.cache.data, d.cache.data)
            /\ k = 4 => SubSeq(a.cache.data, n + 2, n + 1 + Size[v]) = Content(v)
<1> DEFINE c == d.cache
           g == <<Header(v)>>
           u == Content(v)
           h == Write(c, g, CacheCap)
           p == Write(h, u, CacheCap)
           a == AppendWrites(d, v, k)
<1>1. /\ Size[v] \in Nat /\ CacheCap \in Nat \ {0}
      /\ g \in Seq(CacheWord) /\ Len(g) = 1
      /\ u \in Seq(CacheWord) /\ Len(u) = Size[v]
  BY SizeAssumption, CapAssumption, WordFacts
<1>2. StreamType(c, CacheWord)
  BY DiskFields
<1>3. a.cache = IF k >= 2 THEN p ELSE IF k >= 1 THEN h ELSE c
  BY DEF AppendWrites, Disk
<1> HIDE DEF c, a, g, u, p
<1>4. StreamType(h, CacheWord) /\ Len(h.data) = Len(c.data) + 1 /\ StartsWith(h.data, c.data)
  <2>1. StreamType(h, CacheWord) /\ Len(h.data) = Len(c.data) + Len(g)
    BY <1>1, <1>2, WriteFacts
  <2>2. StartsWith(h.data, c.data)
    BY <1>1, <1>2, WriteData
  <2> QED
    BY <1>1, <2>1, <2>2
<1> HIDE DEF h
<1> USE DEF p
<1>5. /\ StreamType(p, CacheWord) /\ Len(p.data) = Len(h.data) + Size[v]
      /\ StartsWith(p.data, h.data)
      /\ \A i \in 1..Size[v] : p.data[Len(h.data) + i] = u[i]
  <2>0. StreamType(h, CacheWord) /\ u \in Seq(CacheWord) /\ CacheCap \in Nat \ {0}
    BY <1>1, <1>4
  <2>1. StreamType(p, CacheWord) /\ Len(p.data) = Len(h.data) + Len(u)
    BY <2>0, WriteFacts
  <2>2. StartsWith(p.data, h.data) /\ \A i \in 1..Len(u) : p.data[Len(h.data) + i] = u[i]
    BY <2>0, WriteData
  <2> QED
    BY <1>1, <2>1, <2>2
<1> HIDE DEF p
<1>6. /\ c.data \in Seq(CacheWord) /\ h.data \in Seq(CacheWord) /\ p.data \in Seq(CacheWord)
      /\ Len(c.data) \in Nat
  BY <1>2, <1>4, <1>5 DEF StreamType
<1>7. StartsWith(p.data, c.data) /\ StartsWith(c.data, c.data)
  <2>1. StartsWith(c.data, c.data)
    BY <1>6 DEF StartsWith
  <2> QED
    BY <1>4, <1>5, <1>6, <2>1, StartsWithTrans
<1>8. SubSeq(p.data, Len(c.data) + 2, Len(c.data) + 1 + Size[v]) = u
  <2> DEFINE from == Len(c.data) + 2
             to == Len(c.data) + 1 + Size[v]
             t == SubSeq(p.data, from, to)
  <2>0. from \in Int /\ to \in Int /\ Len(p.data) = to /\ to - from + 1 = Size[v] /\ from > 0
    <3>1. /\ Len(h.data) = Len(c.data) + 1 /\ Len(p.data) = Len(h.data) + Size[v]
          /\ Len(c.data) \in Nat /\ Size[v] \in Nat
      BY <1>1, <1>4, <1>5, <1>6
    <3> QED
      BY <3>1
  <2>0a. \A i \in 1..Size[v] : from + i - 1 = Len(h.data) + i
    BY <1>1, <1>4, <1>6
  <2> HIDE DEF from, to
  <2>1. \A i \in from..to : p.data[i] \in CacheWord
    BY <1>6, <2>0
  <2>2. /\ t \in Seq(CacheWord)
        /\ Len(t) = IF from <= to THEN to - from + 1 ELSE 0
        /\ \A i \in 1..to - from + 1 : t[i] = p.data[from + i - 1]
    BY <2>0, <2>1, SubSeqProperties
  <2> HIDE DEF t
  <2>3. Len(t) = Size[v]
    BY <1>1, <2>0, <2>2
  <2>4. \A i \in 1..Size[v] : t[i] = u[i]
    BY <1>5, <2>0, <2>0a, <2>2
  <2>5. t = u
    BY <1>1, <2>2, <2>3, <2>4, SeqEqual
  <2> QED
    BY <2>5 DEF t, from, to
<1>9. StartsWith(a.cache.data, c.data)
  BY <1>3, <1>4, <1>7
<1>10. k = 4 => SubSeq(a.cache.data, Len(c.data) + 2, Len(c.data) + 1 + Size[v]) = u
  <2> SUFFICES ASSUME k = 4
               PROVE  SubSeq(a.cache.data, Len(c.data) + 2, Len(c.data) + 1 + Size[v]) = u
    OBVIOUS
  <2>1. a.cache = p
    BY <1>3
  <2> QED
    BY <1>8, <2>1
<1> QED
  BY <1>9, <1>10 DEF a, c, u

-----------------------------------------------------------------------------
(* What is left of the files: cut, or extended with zeros.                 *)

(* What was fsynced and is among the words left is still fsynced.          *)
LEMMA SurvivesDur ==
  ASSUME NEW W, NEW s, StreamType(s, W), NEW n \in 0..Len(s.data)
  PROVE  /\ Survives(s, n).dur \in Nat
         /\ \A m \in Nat : m <= n /\ m <= s.dur => m <= Survives(s, n).dur
BY DEF Survives, StreamType

(* set_len on the cache file: its new length, the words it keeps and what  *)
(* of them is fsynced.                                                     *)
LEMMA SetLenFacts ==
  ASSUME NEW s, StreamType(s, CacheWord), NEW n \in Nat
  PROVE  /\ StreamType(SetLen(s, n), CacheWord)
         /\ Len(SetLen(s, n).data) = n /\ SetLen(s, n).os = n
         /\ \A i \in 1..n : i <= Len(s.data) => SetLen(s, n).data[i] = s.data[i]
         /\ \A m \in Nat : m <= n /\ m <= s.dur => m <= SetLen(s, n).dur
<1> DEFINE w == [k \in 1..n |-> IF k <= Len(s.data) THEN s.data[k] ELSE Zero]
           u == SetLen(s, n).dur
<1>1. s.data \in Seq(CacheWord) /\ Len(s.data) \in Nat /\ s.dur \in Nat /\ s.os \in Nat
  BY DEF StreamType
<1>2. Zero \in CacheWord
  BY DEF Zero, CacheWord
<1>3. \A k \in 1..n : (IF k <= Len(s.data) THEN s.data[k] ELSE Zero) \in CacheWord
  BY <1>1, <1>2
<1>4. w \in Seq(CacheWord) /\ Len(w) = n
  BY <1>3
<1>5. \A i \in 1..n : i <= Len(s.data) => w[i] = s.data[i]
  OBVIOUS
<1>6. u \in Nat /\ u <= n /\ u = IF s.dur <= n THEN s.dur ELSE n
  BY <1>1 DEF SetLen
<1>7. SetLen(s, n) = [data |-> w, os |-> n, dur |-> u]
  BY DEF SetLen
<1> HIDE DEF w, u
<1>8. StreamType(SetLen(s, n), CacheWord)
  BY <1>4, <1>6, <1>7 DEF StreamType
<1> QED
  BY <1>1, <1>4, <1>5, <1>6, <1>7, <1>8

(* The index file cut to n records: its length, the records it keeps and   *)
(* what of them is fsynced.                                                *)
LEMMA KeepRecordsFacts ==
  ASSUME NEW x, StreamType(x, Nat), NEW n \in Nat, 3 * n <= Len(x.data)
  PROVE  LET y == KeepRecords(x, n)
         IN /\ StreamType(y, Nat)
            /\ Len(y.data) = 3 * n
            /\ \A i \in 1..3 * n : y.data[i] = x.data[i]
            /\ x.os = Len(x.data) => y.os = 3 * n
            /\ \A m \in Nat : m <= 3 * n /\ m <= x.dur => m <= y.dur
<1>1. 3 * n \in 0..Len(x.data)
  BY DEF StreamType
<1>2. CASE Len(x.data) = 3 * n
  BY <1>2 DEF KeepRecords
<1>3. CASE Len(x.data) # 3 * n
  <2>1. KeepRecords(x, n) = Survives(x, 3 * n)
    BY <1>3 DEF KeepRecords
  <2>2. /\ StreamType(Survives(x, 3 * n), Nat) /\ Len(Survives(x, 3 * n).data) = 3 * n
        /\ Survives(x, 3 * n).os = 3 * n
        /\ \A i \in 1..3 * n : Survives(x, 3 * n).data[i] = x.data[i]
    BY <1>1, SurvivesFacts
  <2>3. \A m \in Nat : m <= 3 * n /\ m <= x.dur => m <= Survives(x, 3 * n).dur
    BY <1>1, SurvivesDur
  <2> QED
    BY <2>1, <2>2, <2>3
<1> QED
  BY <1>2, <1>3

(* The files of a handle that is gone.                                     *)
LEMMA ClosedFacts ==
  ASSUME NEW d, DiskType(d), NEW m \in 0..Len(d.cache.data), NEW n \in 0..Len(d.index.data)
  PROVE  LET e == Closed(Survives(d.cache, m), Survives(d.index, n))
         IN /\ DiskType(e) /\ e.mmap = NoMmap /\ e.count = 0
            /\ Len(e.cache.data) = m /\ e.cache.os = m
            /\ Len(e.index.data) = n /\ e.index.os = n
            /\ \A i \in 1..m : e.cache.data[i] = d.cache.data[i]
            /\ \A i \in 1..n : e.index.data[i] = d.index.data[i]
            /\ \A k \in Nat : k <= m /\ k <= d.cache.dur => k <= e.cache.dur
            /\ \A k \in Nat : k <= n /\ k <= d.index.dur => k <= e.index.dur
<1> DEFINE c == Survives(d.cache, m)
           x == Survives(d.index, n)
           e == Closed(c, x)
<1>1. StreamType(d.cache, CacheWord) /\ StreamType(d.index, Nat)
  BY DiskFields
<1>2. /\ StreamType(c, CacheWord) /\ c.os = m /\ Len(c.data) = m
      /\ \A i \in 1..m : c.data[i] = d.cache.data[i]
  BY <1>1, SurvivesFacts
<1>3. \A k \in Nat : k <= m /\ k <= d.cache.dur => k <= c.dur
  BY <1>1, SurvivesDur
<1>4. /\ StreamType(x, Nat) /\ x.os = n /\ Len(x.data) = n
      /\ \A i \in 1..n : x.data[i] = d.index.data[i]
  BY <1>1, SurvivesFacts
<1>5. \A k \in Nat : k <= n /\ k <= d.index.dur => k <= x.dur
  BY <1>1, SurvivesDur
<1>6. e = Disk(c, x, 0, 0, NoMmap)
  BY DEF Closed, Opened
<1> HIDE DEF c, x
<1>7. DiskType(e) /\ e.cache = c /\ e.index = x /\ e.mmap = NoMmap /\ e.count = 0
  <2>1. 0 \in Nat /\ NoMmap \in Nat \cup {NoMmap}
    OBVIOUS
  <2>2. DiskType(Disk(c, x, 0, 0, NoMmap))
    BY <1>2, <1>4, <2>1, DiskHasType
  <2> QED
    BY <1>6, <2>2, DiskParts
<1> HIDE DEF e
<1> QED
  BY <1>2, <1>3, <1>4, <1>5, <1>7 DEF e, c, x

-----------------------------------------------------------------------------
(* read_line.                                                              *)

(* How much of the cache file a read can see.                              *)
Visible(d) == IF d.mmap = NoMmap THEN Len(d.cache.data) ELSE d.mmap

(* The files hold line v as record id.                                     *)
Stored(d, id, v) ==
  LET e == Entry(d.index.data, id)
  IN /\ 3 * id + 3 <= Len(d.index.data)
     /\ EndOf(e) <= Len(d.cache.data)
     /\ SubSeq(d.cache.data, e.off + HeaderWords + 1, EndOf(e)) = Content(v)

(* The number of whole records in an index file.                           *)
LEMMA RecordsFacts ==
  ASSUME NEW x \in Seq(Nat)
  PROVE  /\ WholeRecords(x) \in Nat
         /\ 3 * WholeRecords(x) <= Len(x) /\ Len(x) < 3 * WholeRecords(x) + 3
<1> DEFINE n == Len(x)
<1>1. n \in Nat
  OBVIOUS
<1> HIDE DEF n
<1>2. n \div 3 \in Nat /\ 3 * (n \div 3) <= n /\ n < 3 * (n \div 3) + 3
  BY <1>1
<1> QED
  BY <1>2 DEF WholeRecords, n

(* The numbers in a whole record; it ends behind its beginning.            *)
LEMMA EntryFacts ==
  ASSUME NEW x \in Seq(Nat), NEW k \in Nat, 3 * k + 3 <= Len(x)
  PROVE  /\ Entry(x, k).off \in Nat /\ EndOf(Entry(x, k)) \in Nat
         /\ Entry(x, k).off < EndOf(Entry(x, k))
<1>1. x[3 * k + 1] \in Nat /\ x[3 * k + 2] \in Nat /\ x[3 * k + 3] \in Nat
  OBVIOUS
<1> DEFINE low == x[3 * k + 1]
           high == Radix * x[3 * k + 2]
           len == x[3 * k + 3]
<1>2. low \in Nat /\ high \in Nat /\ len \in Nat
  BY <1>1, RadixAssumption
<1>3. EndOf(Entry(x, k)) = low + high + 1 + len /\ Entry(x, k).off = low + high
  BY DEF Entry, EndOf
<1> HIDE DEF low, high, len
<1> QED
  BY <1>2, <1>3

(* Two answers of a read are the same when their bytes are.                *)
LEMMA SameBytes ==
  ASSUME NEW a, NEW b
  PROVE  [ok |-> TRUE, bytes |-> a] = [ok |-> TRUE, bytes |-> b] <=> a = b
<1>1. [ok |-> TRUE, bytes |-> a].bytes = a /\ [ok |-> TRUE, bytes |-> b].bytes = b
  OBVIOUS
<1> QED
  BY <1>1

(* A read returns line v of an id exactly when the id is counted, its      *)
(* record and words are in the files, and the mapping reaches to the end   *)
(* of them.                                                                *)
LEMMA ReturnsFacts ==
  ASSUME NEW d, DiskType(d), d.mmap <= Len(d.cache.data), NEW id \in Nat, NEW v \in Lines
  PROVE  Returns(d, id, v) <=>
           /\ id < d.count
           /\ Stored(d, id, v)
           /\ EndOf(Entry(d.index.data, id)) <= Visible(d)
<1> DEFINE f == AfterRead(d)
           e == Entry(d.index.data, id)
           w == SubSeq(d.cache.data, e.off + HeaderWords + 1, EndOf(e))
           bad == id >= d.count \/ WholeRecords(d.index.data) <= id \/ EndOf(e) > Visible(d)
<1>1. /\ d.index.data \in Seq(Nat) /\ d.cache.data \in Seq(CacheWord)
      /\ Len(d.index.data) \in Nat /\ Len(d.cache.data) \in Nat
      /\ d.count \in Nat /\ d.mmap \in Nat \cup {NoMmap}
  BY DiskFields DEF StreamType
<1>2. f.index.data = d.index.data /\ f.cache.data = d.cache.data
  BY FlushFacts
<1>3. f.mmap = Visible(d)
  <2>1. Flush(d).cache = FlushStream(d.cache)
    BY DEF Flush, Disk
  <2>2. FlushStream(d.cache).os = Len(d.cache.data)
    BY DiskFields, FlushStreamFacts
  <2> QED
    BY <2>1, <2>2 DEF AfterRead, Disk, Visible
<1>4. ReadLine(d, id) = IF bad THEN ReadFails ELSE [ok |-> TRUE, bytes |-> w]
  BY <1>2, <1>3 DEF ReadLine
<1>5. WholeRecords(d.index.data) <= id <=> ~(3 * id + 3 <= Len(d.index.data))
  <2> DEFINE k == WholeRecords(d.index.data)
             n == Len(d.index.data)
  <2>1. k \in Nat /\ 3 * k <= n /\ n < 3 * k + 3 /\ n \in Nat
    BY <1>1, RecordsFacts
  <2> HIDE DEF k, n
  <2>2. k <= id <=> ~(3 * id + 3 <= n)
    BY <2>1
  <2> QED
    BY <2>2 DEF k, n
<1>6. Visible(d) \in Nat /\ Visible(d) <= Len(d.cache.data)
  BY <1>1 DEF Visible, NoMmap
<1>7. Returns(d, id, v) <=> ~bad /\ w = Content(v)
  <2> HIDE DEF bad, w
  <2>1. CASE bad
    <3>1. ReadLine(d, id).ok = FALSE
      BY <1>4, <2>1 DEF ReadFails
    <3> QED
      BY <2>1, <3>1 DEF Returns
  <2>2. CASE ~bad
    <3>1. ReadLine(d, id) = [ok |-> TRUE, bytes |-> w]
      BY <1>4, <2>2
    <3> QED
      BY <2>2, <3>1, SameBytes DEF Returns
  <2> QED
    BY <2>1, <2>2
<1>8. CASE 3 * id + 3 <= Len(d.index.data)
  <2>1. EndOf(e) \in Nat
    BY <1>1, <1>8, EntryFacts
  <2> QED
    BY <1>1, <1>5, <1>6, <1>7, <1>8, <2>1, SMTT(30) DEF Stored
<1>9. CASE ~(3 * id + 3 <= Len(d.index.data))
  BY <1>5, <1>7, <1>9 DEF Stored
<1> QED
  BY <1>8, <1>9

(* A line stays stored while the files agree on its record and its words.  *)
LEMMA StoredStays ==
  ASSUME NEW d, DiskType(d), NEW e, DiskType(e),
         NEW id \in Nat, NEW v \in Lines, Stored(d, id, v),
         NEW n \in Nat, 3 * id + 3 <= n, n <= Len(d.index.data), n <= Len(e.index.data),
         \A i \in 1..n : e.index.data[i] = d.index.data[i],
         NEW m \in Nat, EndOf(Entry(d.index.data, id)) <= m,
         m <= Len(d.cache.data), m <= Len(e.cache.data),
         \A i \in 1..m : e.cache.data[i] = d.cache.data[i]
  PROVE  Stored(e, id, v) /\ Entry(e.index.data, id) = Entry(d.index.data, id)
<1> DEFINE r == Entry(d.index.data, id)
           x == d.cache.data
           y == e.cache.data
           a == d.index.data
           b == e.index.data
           to == EndOf(r)
<1>1. Entry(b, id) = r
  BY EntryStable, ZenonT(60)
<1>2. x \in Seq(CacheWord) /\ Len(x) \in Nat /\ a \in Seq(Nat) /\ Len(a) \in Nat
  BY DiskData
<1>3. y \in Seq(CacheWord) /\ Len(y) \in Nat /\ b \in Seq(Nat) /\ Len(b) \in Nat
  BY DiskData
<1>4. /\ \A i \in 1..m : y[i] = x[i]
      /\ 3 * id + 3 <= n /\ n <= Len(a) /\ n <= Len(b)
      /\ to <= m /\ m <= Len(x) /\ m <= Len(y)
      /\ SubSeq(x, r.off + HeaderWords + 1, to) = Content(v)
  BY DEF Stored
<1>5. r.off \in Nat /\ to \in Nat
  <2>1. 3 * id + 3 <= Len(a)
    <3> HIDE DEF a, b, x, y, to
    <3> QED
      BY <1>2, <1>4
  <2> QED
    BY <1>2, <2>1, EntryFacts
<1>6. Stored(e, id, v) <=> /\ 3 * id + 3 <= Len(b) /\ EndOf(Entry(b, id)) <= Len(y)
                           /\ SubSeq(y, Entry(b, id).off + HeaderWords + 1, EndOf(Entry(b, id))) = Content(v)
  BY DEF Stored
<1>7. EndOf(Entry(b, id)) = to
  BY <1>1
<1> HIDE DEF a, b, x, y, to, r
<1>8. 3 * id + 3 <= Len(b) /\ to <= Len(y) /\ to \in 0..m
  <2>1. /\ 3 * id + 3 <= n /\ n <= Len(b) /\ to <= m /\ m <= Len(y)
        /\ Len(b) \in Nat /\ Len(y) \in Nat /\ to \in Nat
    BY <1>3, <1>4, <1>5
  <2> QED
    BY <2>1
<1>9. SubSeq(y, r.off + HeaderWords + 1, to) = SubSeq(x, r.off + HeaderWords + 1, to)
  <2>1. r.off + HeaderWords + 1 \in Nat \ {0} /\ to \in 0..m
    BY <1>5, <1>8, SMTT(30)
  <2>2. \A i \in 1..m : y[i] = x[i]
    BY <1>4
  <2>3. m <= Len(x) /\ m <= Len(y) /\ x \in Seq(CacheWord) /\ y \in Seq(CacheWord)
    BY <1>2, <1>3, <1>4
  <2> DEFINE from == r.off + HeaderWords + 1
  <2>4. from \in Nat \ {0}
    BY <2>1
  <2> HIDE DEF from
  <2>5. SubSeq(y, from, to) = SubSeq(x, from, to)
    BY <2>1, <2>2, <2>3, <2>4, SameStretch
  <2> QED
    BY <2>5 DEF from
<1> QED
  BY <1>1, <1>4, <1>6, <1>7, <1>8, <1>9 DEF a, b, r

-----------------------------------------------------------------------------
(* recover() and the rest of open().                                       *)

(* What recover and open leave: how many records count, where they end,    *)
(* and which file is cut.                                                  *)
LEMMA OpenParts ==
  ASSUME NEW d, DiskType(d)
  PROVE  LET e == Open(d)
             n == WholeRecords(d.index.data)
         IN /\ e.count = IF IndexAhead(d) THEN n - 1 ELSE n
            /\ e.count \in Nat /\ n \in Nat /\ e.mmap = NoMmap
            /\ e.index = IF e.count = 0 THEN d.index ELSE KeepRecords(d.index, e.count)
            /\ e.off = IF e.count = 0 THEN 0 ELSE EndOf(Entry(d.index.data, e.count - 1))
            /\ e.cache = IF e.count > 0 /\ IndexAhead(d) THEN SetLen(d.cache, e.off) ELSE d.cache
<1> DEFINE e == Open(d)
           n == WholeRecords(d.index.data)
           end(k) == EndOf(Entry(d.index.data, k - 1))
<1>1. n \in Nat
  BY DiskData, RecordsFacts
<1>2. IndexAhead(d) => n > 0
  BY DEF IndexAhead
<1>3. LastEnd(d) = end(n)
  BY DEF LastEnd
<1>4. PrevEnd(d) = end(n - 1)
  <2>1. n - 1 - 1 = n - 2
    BY <1>1
  <2> QED
    BY <2>1 DEF PrevEnd
<1>5. e = CASE n = 0 \/ (n = 1 /\ IndexAhead(d)) -> Opened(d.cache, d.index, 0, 0)
            [] n > 1 /\ IndexAhead(d) ->
                 Opened(SetLen(d.cache, PrevEnd(d)), KeepRecords(d.index, n - 1), PrevEnd(d), n - 1)
            [] OTHER -> Opened(d.cache, KeepRecords(d.index, n), LastEnd(d), n)
  BY DEF Open
<1> HIDE DEF e, n, end
<1>6. CASE n = 0 \/ (n = 1 /\ IndexAhead(d))
  <2>1. e = Disk(d.cache, d.index, 0, 0, NoMmap)
    BY <1>5, <1>6 DEF Opened
  <2>2. e.count = 0 /\ e.mmap = NoMmap /\ e.index = d.index /\ e.off = 0 /\ e.cache = d.cache
    BY <2>1, DiskParts
  <2>3. 0 = IF IndexAhead(d) THEN n - 1 ELSE n
    BY <1>2, <1>6
  <2> QED
    BY <1>1, <2>2, <2>3 DEF e, n
<1>7. CASE n > 1 /\ IndexAhead(d)
  <2>0. ~(n = 0 \/ (n = 1 /\ IndexAhead(d)))
    BY <1>1, <1>7
  <2>1. e = Disk(SetLen(d.cache, end(n - 1)), KeepRecords(d.index, n - 1), end(n - 1), n - 1, NoMmap)
    BY <1>4, <1>5, <1>7, <2>0 DEF Opened
  <2>2. /\ e.count = n - 1 /\ e.mmap = NoMmap /\ e.index = KeepRecords(d.index, n - 1)
        /\ e.off = end(n - 1) /\ e.cache = SetLen(d.cache, end(n - 1))
    BY <2>1, DiskParts
  <2>3. n - 1 \in Nat /\ n - 1 > 0 /\ n - 1 # 0
    BY <1>1, <1>7
  <2> QED
    BY <1>1, <1>7, <2>2, <2>3 DEF e, n, end
<1>8. CASE n > 0 /\ ~IndexAhead(d)
  <2>0. ~(n = 0 \/ (n = 1 /\ IndexAhead(d))) /\ ~(n > 1 /\ IndexAhead(d))
    BY <1>1, <1>8
  <2>1. e = Disk(d.cache, KeepRecords(d.index, n), end(n), n, NoMmap)
    BY <1>3, <1>5, <2>0 DEF Opened
  <2>2. /\ e.count = n /\ e.mmap = NoMmap /\ e.index = KeepRecords(d.index, n)
        /\ e.off = end(n) /\ e.cache = d.cache
    BY <2>1, DiskParts
  <2>3. n # 0
    BY <1>8
  <2> QED
    BY <1>1, <1>8, <2>2, <2>3 DEF e, n, end
<1> QED
  BY <1>1, <1>6, <1>7, <1>8

(* The counted records are whole, and each file keeps what it has up to    *)
(* where the last of them ends.                                            *)
LEMMA OpenKeeps ==
  ASSUME NEW d, DiskType(d)
  PROVE  LET e == Open(d)
         IN /\ DiskType(e)
            /\ 3 * e.count <= Len(d.index.data) /\ 3 * e.count <= Len(e.index.data)
            /\ \A i \in 1..3 * e.count : e.index.data[i] = d.index.data[i]
            /\ \A m \in Nat : m <= 3 * e.count /\ m <= d.index.dur => m <= e.index.dur
            /\ d.index.os = Len(d.index.data) => e.index.os = Len(e.index.data)
            /\ \A i \in 1..Len(e.cache.data) :
                 i <= Len(d.cache.data) => e.cache.data[i] = d.cache.data[i]
            /\ \A m \in Nat : /\ IndexAhead(d) => m <= e.off
                              /\ m <= Len(d.cache.data)
                              => /\ m <= Len(e.cache.data)
                                 /\ m <= d.cache.dur => m <= e.cache.dur
            /\ d.cache.os = Len(d.cache.data) => e.cache.os = Len(e.cache.data)
            /\ e.count > 0 => /\ Len(e.index.data) = 3 * e.count
                              /\ e.off <= Len(e.cache.data)
<1> DEFINE e == Open(d)
           n == WholeRecords(d.index.data)
           j == e.count
           len == Len(d.index.data)
<1>1. /\ j = IF IndexAhead(d) THEN n - 1 ELSE n
      /\ j \in Nat /\ n \in Nat /\ e.mmap = NoMmap
      /\ e.index = IF j = 0 THEN d.index ELSE KeepRecords(d.index, j)
      /\ e.off = IF j = 0 THEN 0 ELSE EndOf(Entry(d.index.data, j - 1))
      /\ e.cache = IF j > 0 /\ IndexAhead(d) THEN SetLen(d.cache, e.off) ELSE d.cache
  BY OpenParts
<1>2. StreamType(d.cache, CacheWord) /\ StreamType(d.index, Nat)
  BY DiskFields
<1>3. d.index.data \in Seq(Nat) /\ len \in Nat /\ d.cache.data \in Seq(CacheWord) /\ Len(d.cache.data) \in Nat
  BY DiskData
<1>4. n \in Nat /\ 3 * n <= len
  BY <1>3, RecordsFacts
<1> HIDE DEF n, len
<1>5. j \in Nat /\ j <= n /\ 3 * j <= len
  BY <1>1, <1>4, <1>3
<1> HIDE DEF e, j
<1>6. e.off \in Nat
  <2>1. CASE j = 0
    BY <1>1, <2>1
  <2>2. CASE j # 0
    <3>1. j - 1 \in Nat /\ 3 * (j - 1) + 3 <= len
      BY <1>3, <1>5, <2>2
    <3>2. EndOf(Entry(d.index.data, j - 1)) \in Nat
      BY <1>3, <3>1, EntryFacts DEF len
    <3> QED
      BY <1>1, <2>2, <3>2
  <2> QED
    BY <2>1, <2>2
<1>7. /\ StreamType(e.index, Nat)
      /\ 3 * j <= Len(e.index.data)
      /\ \A i \in 1..3 * j : e.index.data[i] = d.index.data[i]
      /\ \A m \in Nat : m <= 3 * j /\ m <= d.index.dur => m <= e.index.dur
      /\ d.index.os = len => e.index.os = Len(e.index.data)
      /\ j > 0 => Len(e.index.data) = 3 * j
  <2>1. CASE j = 0
    BY <1>1, <1>2, <1>3, <2>1 DEF len
  <2>2. CASE j # 0
    <3> DEFINE x == KeepRecords(d.index, j)
    <3>1. /\ StreamType(x, Nat)
          /\ Len(x.data) = 3 * j
          /\ \A i \in 1..3 * j : x.data[i] = d.index.data[i]
          /\ d.index.os = Len(d.index.data) => x.os = 3 * j
          /\ \A m \in Nat : m <= 3 * j /\ m <= d.index.dur => m <= x.dur
      BY <1>2, <1>5, KeepRecordsFacts DEF len
    <3>2. e.index = x
      BY <1>1, <2>2
    <3> HIDE DEF x
    <3>3. 3 * j <= 3 * j
      BY <1>5
    <3> QED
      BY <3>1, <3>2, <3>3 DEF len
  <2> QED
    BY <2>1, <2>2
<1>8. /\ StreamType(e.cache, CacheWord)
      /\ \A i \in 1..Len(e.cache.data) :
           i <= Len(d.cache.data) => e.cache.data[i] = d.cache.data[i]
      /\ d.cache.os = Len(d.cache.data) => e.cache.os = Len(e.cache.data)
      /\ j > 0 => e.off <= Len(e.cache.data)
      /\ \A m \in Nat : /\ IndexAhead(d) => m <= e.off
                        /\ m <= Len(d.cache.data)
                        => /\ m <= Len(e.cache.data)
                           /\ m <= d.cache.dur => m <= e.cache.dur
  <2>1. CASE j > 0 /\ IndexAhead(d)
    <3> DEFINE c == SetLen(d.cache, e.off)
    <3>1. /\ StreamType(c, CacheWord)
          /\ Len(c.data) = e.off /\ c.os = e.off
          /\ \A i \in 1..e.off : i <= Len(d.cache.data) => c.data[i] = d.cache.data[i]
          /\ \A m \in Nat : m <= e.off /\ m <= d.cache.dur => m <= c.dur
      BY <1>2, <1>6, SetLenFacts
    <3>2. e.cache = c
      BY <1>1, <2>1
    <3> HIDE DEF c
    <3>3. e.off <= e.off
      BY <1>6
    <3> QED
      BY <2>1, <3>1, <3>2, <3>3
  <2>2. CASE ~(j > 0 /\ IndexAhead(d))
    <3>1. e.cache = d.cache
      BY <1>1, <2>2
    <3>2. ASSUME j > 0
          PROVE  e.off <= Len(e.cache.data)
      <4>1. ~IndexAhead(d) /\ j = n /\ n > 0 /\ j # 0
        BY <1>1, <2>2, <3>2
      <4>2. e.off = LastEnd(d)
        BY <1>1, <4>1 DEF LastEnd, n
      <4>3. ~(Len(d.cache.data) < LastEnd(d))
        BY <4>1 DEF IndexAhead, n
      <4> QED
        BY <1>3, <1>6, <3>1, <4>2, <4>3
    <3> QED
      BY <1>2, <3>1, <3>2
  <2> QED
    BY <2>1, <2>2
<1>9. DiskType(e)
  <2>1. e = Disk(e.cache, e.index, e.off, e.count, e.mmap)
    BY DEF e, Open, Opened, Disk
  <2>2. e.count \in Nat /\ e.mmap \in Nat \cup {NoMmap}
    BY <1>1 DEF j
  <2>3. DiskType(Disk(e.cache, e.index, e.off, e.count, e.mmap))
    BY <1>6, <1>7, <1>8, <2>2, DiskHasType, Zenon
  <2> QED
    BY <2>1, <2>3
<1> QED
  BY <1>5, <1>7, <1>8, <1>9 DEF e, j, len

(* A failed open has cut the index file, by the last record.               *)
LEMMA FailedOpenFacts ==
  ASSUME NEW d, DiskType(d), OpenCuts(d)
  PROVE  LET e == AfterFailedOpen(d)
             n == WholeRecords(d.index.data) - 1
         IN /\ DiskType(e) /\ e.cache = d.cache /\ e.mmap = d.mmap /\ n \in Nat
            /\ Len(e.index.data) = 3 * n /\ 3 * n <= Len(d.index.data)
            /\ \A i \in 1..3 * n : e.index.data[i] = d.index.data[i]
            /\ d.index.os = Len(d.index.data) => e.index.os = Len(e.index.data)
            /\ \A m \in Nat : m <= 3 * n /\ m <= d.index.dur => m <= e.index.dur
<1> DEFINE n == WholeRecords(d.index.data) - 1
           x == KeepRecords(d.index, n)
           e == AfterFailedOpen(d)
<1>1. n \in Nat /\ 3 * n <= Len(d.index.data)
  <2>1. /\ WholeRecords(d.index.data) \in Nat /\ Len(d.index.data) \in Nat
        /\ 3 * WholeRecords(d.index.data) <= Len(d.index.data)
    BY DiskData, RecordsFacts
  <2>2. WholeRecords(d.index.data) > 1
    BY DEF OpenCuts
  <2> QED
    BY <2>1, <2>2
<1>2. StreamType(d.index, Nat)
  BY DiskFields
<1>3. e = [d EXCEPT !.index = x]
  BY DEF AfterFailedOpen
<1> HIDE DEF n, e
<1>4. /\ StreamType(x, Nat)
      /\ Len(x.data) = 3 * n
      /\ \A i \in 1..3 * n : x.data[i] = d.index.data[i]
      /\ d.index.os = Len(d.index.data) => x.os = 3 * n
      /\ \A m \in Nat : m <= 3 * n /\ m <= d.index.dur => m <= x.dur
  BY <1>1, <1>2, KeepRecordsFacts
<1> HIDE DEF x
<1>5. DiskType(e) /\ e.cache = d.cache /\ e.mmap = d.mmap /\ e.index = x
  BY <1>3, <1>4 DEF DiskType, StreamType
<1> QED
  BY <1>1, <1>4, <1>5 DEF e, n

(* Flushing one of the two files.                                          *)
LEMMA HalfFlushFacts ==
  ASSUME NEW d, DiskType(d),
         NEW e \in FlushFailures(d) \cup {[d EXCEPT !.index = FlushStream(@)]}
  PROVE  /\ DiskType(e)
         /\ e.off = d.off /\ e.count = d.count /\ e.mmap = d.mmap
         /\ e.cache.data = d.cache.data /\ e.index.data = d.index.data
         /\ d.cache.os <= e.cache.os /\ d.index.os <= e.index.os
<1> DEFINE c == FlushStream(d.cache)
           x == FlushStream(d.index)
<1>1. StreamType(d.cache, CacheWord) /\ StreamType(d.index, Nat)
  BY DiskFields
<1>2. /\ StreamType(c, CacheWord) /\ c.data = d.cache.data /\ c.os = Len(d.cache.data)
      /\ StreamType(x, Nat) /\ x.data = d.index.data /\ x.os = Len(d.index.data)
  BY <1>1, FlushStreamFacts
<1>3. d.cache.os \in 0..Len(d.cache.data) /\ d.index.os \in 0..Len(d.index.data)
  BY DiskData
<1>4. e \in {d, [d EXCEPT !.cache = c], [d EXCEPT !.index = x]}
  BY DEF FlushFailures, HalfFlushed
<1> HIDE DEF c, x
<1>5. CASE e = d
  BY <1>3, <1>5
<1>6. CASE e = [d EXCEPT !.cache = c]
  <2>1. /\ e.cache = c /\ e.index = d.index /\ e.off = d.off /\ e.count = d.count
        /\ e.mmap = d.mmap
    BY <1>6 DEF DiskType
  <2>2. DiskType(e)
    BY <1>2, <1>6 DEF DiskType, StreamType
  <2> QED
    BY <1>2, <1>3, <2>1, <2>2
<1>7. CASE e = [d EXCEPT !.index = x]
  <2>1. /\ e.cache = d.cache /\ e.index = x /\ e.off = d.off /\ e.count = d.count
        /\ e.mmap = d.mmap
    BY <1>7 DEF DiskType
  <2>2. DiskType(e)
    BY <1>2, <1>7 DEF DiskType, StreamType
  <2> QED
    BY <1>2, <1>3, <2>1, <2>2
<1> QED
  BY <1>4, <1>5, <1>6, <1>7

(* A flush stopped after its first file: all of .cache is with the system. *)
LEMMA HalfFlushedFacts ==
  ASSUME NEW d, DiskType(d)
  PROVE  LET e == HalfFlushed(d)
         IN /\ DiskType(e)
            /\ e.off = d.off /\ e.count = d.count /\ e.mmap = d.mmap
            /\ e.index = d.index
            /\ e.cache.data = d.cache.data /\ e.cache.dur = d.cache.dur
            /\ e.cache.os = Len(d.cache.data) /\ d.cache.os <= e.cache.os
<1> DEFINE c == FlushStream(d.cache)
           e == HalfFlushed(d)
<1>1. StreamType(d.cache, CacheWord) /\ StreamType(d.index, Nat)
  BY DiskFields
<1>2. /\ StreamType(c, CacheWord) /\ c.data = d.cache.data /\ c.os = Len(d.cache.data)
      /\ c.dur = d.cache.dur
  <2>1. c.dur = d.cache.dur
    BY <1>1 DEF FlushStream, StreamType
  <2> QED
    BY <1>1, <2>1, FlushStreamFacts
<1>3. d.cache.os \in 0..Len(d.cache.data)
  BY DiskData
<1>4. e = [d EXCEPT !.cache = c]
  BY DEF HalfFlushed
<1> HIDE DEF c, e
<1>5. /\ e.cache = c /\ e.index = d.index /\ e.off = d.off /\ e.count = d.count
      /\ e.mmap = d.mmap
  BY <1>4 DEF DiskType
<1>6. DiskType(e)
  BY <1>2, <1>4 DEF DiskType, StreamType
<1> QED
  BY <1>2, <1>3, <1>5, <1>6 DEF e

(* append_line, when all of its writes are made.                           *)
LEMMA AppendLineFacts ==
  ASSUME NEW d, DiskType(d), NEW v \in Lines
  PROVE  LET a == AppendWrites(d, v, 4)
             e == AppendLine(d, v)
         IN /\ DiskType(e) /\ e.cache = a.cache /\ e.index = a.index
            /\ e.off = d.off + 1 + Size[v] /\ e.count = d.count + 1 /\ e.mmap = NoMmap
<1> DEFINE a == AppendWrites(d, v, 4)
           e == AppendLine(d, v)
<1>1. e = Disk(a.cache, a.index, d.off + 1 + Size[v], d.count + 1, NoMmap)
  BY DEF AppendLine, Opened
<1>2. DiskType(a)
  <2>1. 4 \in 0..4
    OBVIOUS
  <2> QED
    BY <2>1, AppendWritesFacts
<1> HIDE DEF a, e
<1>3. StreamType(a.cache, CacheWord) /\ StreamType(a.index, Nat)
  BY <1>2, DiskFields
<1>4. /\ d.off + 1 + Size[v] \in Nat /\ d.count + 1 \in Nat /\ NoMmap \in Nat \cup {NoMmap}
  <2>1. d.off \in Nat /\ d.count \in Nat /\ Size[v] \in Nat
    BY DiskFields, SizeAssumption
  <2> QED
    BY <2>1
<1>5. DiskType(e)
  BY <1>1, <1>3, <1>4, DiskHasType, Zenon
<1> QED
  BY <1>1, <1>5, DiskParts DEF a, e

(* What a killed process leaves: of both files what the system had, with   *)
(* everything that was fsynced still fsynced.                              *)
LEMMA KilledParts ==
  ASSUME NEW d, DiskType(d)
  PROVE  /\ DiskType(Killed(d)) /\ Killed(d).mmap = NoMmap
         /\ Len(Killed(d).cache.data) = d.cache.os /\ Killed(d).cache.os = d.cache.os
         /\ Len(Killed(d).index.data) = d.index.os /\ Killed(d).index.os = d.index.os
         /\ \A i \in 1..d.cache.os : Killed(d).cache.data[i] = d.cache.data[i]
         /\ \A i \in 1..d.index.os : Killed(d).index.data[i] = d.index.data[i]
         /\ \A k \in Nat : k <= d.cache.dur => k <= Killed(d).cache.dur
         /\ \A k \in Nat : k <= d.index.dur => k <= Killed(d).index.dur
<1> DEFINE m == d.cache.os
           n == d.index.os
           e == Closed(Survives(d.cache, m), Survives(d.index, n))
<1>1. m \in 0..Len(d.cache.data) /\ n \in 0..Len(d.index.data)
  BY DiskData
<1>2. d.cache.dur \in 0..m /\ d.index.dur \in 0..n
  BY DiskData
<1>3. Killed(d) = e
  BY DEF Killed
<1> HIDE DEF e, m, n
<1>4. /\ DiskType(e) /\ e.mmap = NoMmap /\ e.count = 0
      /\ Len(e.cache.data) = m /\ e.cache.os = m
      /\ Len(e.index.data) = n /\ e.index.os = n
      /\ \A i \in 1..m : e.cache.data[i] = d.cache.data[i]
      /\ \A i \in 1..n : e.index.data[i] = d.index.data[i]
      /\ \A k \in Nat : k <= m /\ k <= d.cache.dur => k <= e.cache.dur
      /\ \A k \in Nat : k <= n /\ k <= d.index.dur => k <= e.index.dur
  BY <1>1, ClosedFacts DEF e
<1>5. \A k \in Nat : k <= d.cache.dur => k <= m
  BY <1>1, <1>2
<1>6. \A k \in Nat : k <= d.index.dur => k <= n
  BY <1>1, <1>2
<1>7. \A k \in Nat : k <= d.cache.dur => k <= e.cache.dur
  BY <1>4, <1>5
<1>8. \A k \in Nat : k <= d.index.dur => k <= e.index.dur
  BY <1>4, <1>6
<1> QED
  BY <1>3, <1>4, <1>7, <1>8 DEF m, n

(* A line appended at the true end of both files is shown at its id.       *)
LEMMA AppendShows ==
  ASSUME NEW d, DiskType(d), NEW v \in Lines,
         Len(d.cache.data) = d.off, Len(d.index.data) = 3 * d.count
  PROVE  LET e == AppendLine(d, v)
         IN /\ Returns(e, d.count, v)
            /\ Entry(e.index.data, d.count) = [off |-> d.off, len |-> Size[v]]
<1> DEFINE a == AppendWrites(d, v, 4)
           e == AppendLine(d, v)
           n == Len(d.cache.data)
           r == Entry(a.index.data, d.count)
<1>1. n = d.off /\ Len(d.index.data) = 3 * d.count
  OBVIOUS
<1>2. d.count \in Nat /\ d.off \in Nat /\ Size[v] \in Nat
  BY DiskFields, SizeAssumption
<1>3. /\ Len(a.cache.data) = n + 1 + Size[v]
      /\ Len(a.index.data) = Len(d.index.data) + 3
      /\ r = [off |-> d.off, len |-> Size[v]]
  <2>1. 4 \in 0..4
    OBVIOUS
  <2> QED
    BY <1>1, <1>2, <2>1, AppendWritesFacts
<1>4. SubSeq(a.cache.data, n + 2, n + 1 + Size[v]) = Content(v)
  <2>1. 4 \in 0..4
    OBVIOUS
  <2> QED
    BY <2>1, AppendContent
<1>5. DiskType(e) /\ e.cache = a.cache /\ e.index = a.index /\ e.count = d.count + 1 /\ e.mmap = NoMmap
  BY AppendLineFacts
<1> HIDE DEF a, e, r, n
<1>6. /\ r.off = d.off /\ EndOf(r) = d.off + 1 + Size[v] /\ r.off + HeaderWords + 1 = n + 2
  BY <1>1, <1>2, <1>3 DEF EndOf
<1>7. /\ 3 * d.count + 3 <= Len(a.index.data) /\ EndOf(r) <= Len(a.cache.data)
      /\ EndOf(r) = n + 1 + Size[v]
  BY <1>1, <1>2, <1>3, <1>6, SMTT(30)
<1>8. Stored(e, d.count, v)
  BY <1>4, <1>5, <1>6, <1>7 DEF Stored, r
<1>9. Returns(e, d.count, v)
  <2>1. d.count < e.count /\ e.mmap <= Len(e.cache.data) /\ EndOf(r) <= Visible(e)
    BY <1>1, <1>2, <1>3, <1>5, <1>7, SMTT(30) DEF Visible, NoMmap
  <2>2. Entry(e.index.data, d.count) = r
    BY <1>5 DEF r
  <2> QED
    BY <1>2, <1>5, <1>8, <2>1, <2>2, ReturnsFacts
<1> QED
  BY <1>3, <1>5, <1>9 DEF e, r
=============================================================================
