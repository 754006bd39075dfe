----------------------------- MODULE TextSearch -----------------------------
(***************************************************************************)
(* Plain-text search as it is done character by character: the trigram     *)
(* index, search/trigram_index.rs, and the search over its candidates,     *)
(* search/mod.rs.  VirtualBuffer models the index of a buffer over time    *)
(* with whole lines; here texts are sequences of characters.               *)
(*                                                                         *)
(* Upper is a function from the upper-case letters to the lower-case ones, *)
(* Blanks are the characters that end a word.                              *)
(***************************************************************************)
EXTENDS Integers, Sequences, FiniteSets, SequencesExt

CONSTANTS Upper, Blanks

Lower(text) == [i \in 1 .. Len(text) |->
                  IF text[i] \in DOMAIN Upper THEN Upper[text[i]] ELSE text[i]]

At(text, i, n) == SubSeq(text, i, i + n - 1)

-----------------------------------------------------------------------------
(* trigram_index.rs                                                        *)

(* Mutant: the case is kept.                                               *)
TrigramsOf_AsIs(text) == [i \in 1 .. Len(text) - 2 |-> At(text, i, 3)]
(* In the order of the text, with repetitions.                             *)
TrigramsOf(text) == [i \in 1 .. Len(text) - 2 |-> At(Lower(text), i, 3)]

(* index_line for the lines of a buffer in order: a posting list per       *)
(* trigram, each line in it once.                                          *)
Postings(lines) ==
  LET Lists(t) == SelectSeq([id \in 1 .. Len(lines) |-> id],
                            LAMBDA id : t \in ToSet(TrigramsOf(lines[id])))
  IN  [t \in UNION {ToSet(TrigramsOf(lines[id])) : id \in 1 .. Len(lines)} |-> Lists(t)]

(* The merge of two ascending lists, step by step.                         *)
IntersectSorted(a, b) ==
  LET Step(acc, k) ==
        IF acc.i > Len(a) \/ acc.j > Len(b) THEN acc
        ELSE IF a[acc.i] = b[acc.j]
        THEN [out |-> Append(acc.out, a[acc.i]), i |-> acc.i + 1, j |-> acc.j + 1]
        ELSE IF a[acc.i] < b[acc.j] THEN [acc EXCEPT !.i = @ + 1]
        ELSE [acc EXCEPT !.j = @ + 1]
  IN  FoldLeft(Step, [out |-> <<>>, i |-> 1, j |-> 1],
               [k \in 1 .. Len(a) + Len(b) |-> k]).out

NoAnswer == [narrowed |-> FALSE, ids |-> <<>>]  \* None

Narrowed(ids) == [narrowed |-> TRUE, ids |-> ids]

(* candidates: shortest list first.                                        *)
Candidates(postings, query) ==
  LET trigrams == TrigramsOf(query)
      lists    == SortSeq([i \in 1 .. Len(trigrams) |-> postings[trigrams[i]]],
                          LAMBDA a, b : Len(a) < Len(b))
  IN  IF trigrams = <<>> THEN NoAnswer
      ELSE IF \E i \in 1 .. Len(trigrams) : trigrams[i] \notin DOMAIN postings
      THEN Narrowed(<<>>)
      ELSE Narrowed(FoldLeft(IntersectSorted, lists[1], lists))

-----------------------------------------------------------------------------
(* search/mod.rs                                                           *)

IsWholeWord(text, i, n) ==
  /\ i = 1 \/ text[i - 1] \in Blanks
  /\ i + n > Len(text) \/ text[i + n] \in Blanks

Occurrences(text, query) ==
  {i \in 1 .. Len(text) - Len(query) + 1 : At(text, i, Len(query)) = query}

(* find_all: from left to right, going on behind each occurrence, whether  *)
(* it was reported or not.                                                 *)
FindAll(line, opts) ==
  LET hay == IF opts.case_sensitive THEN line ELSE Lower(line)
      pat == IF opts.case_sensitive THEN opts.query ELSE Lower(opts.query)
      Step(acc, i) ==
        IF i < acc.start \/ i \notin Occurrences(hay, pat) THEN acc
        ELSE [start |-> i + Len(pat),
              out   |-> IF opts.whole_word /\ ~IsWholeWord(hay, i, Len(pat))
                        THEN acc.out ELSE Append(acc.out, i)]
  IN  IF pat = <<>> THEN <<>>
      ELSE FoldLeft(Step, [start |-> 1, out |-> <<>>], [i \in 1 .. Len(hay) |-> i]).out

(* search_stream without a callback that stops it: <<line, column>> of     *)
(* every match, in ascending order.                                        *)
SearchStream(lines, opts) ==
  LET narrowed == Candidates(Postings(lines), opts.query)
      ids  == IF narrowed.narrowed THEN SortSeq(narrowed.ids, <)
              ELSE [id \in 1 .. Len(lines) |-> id]
      hits == [k \in 1 .. Len(ids) |->
                 LET cols == FindAll(lines[ids[k]], opts)
                 IN  [j \in 1 .. Len(cols) |-> <<ids[k], cols[j]>>]]
  IN  FlattenSeq(hits)

-----------------------------------------------------------------------------
(* What a search should find, in whichever lines the index has left: only  *)
(* occurrences, and words only when asked to; no two that overlap; and     *)
(* every one, unless it overlaps a match or, with whole_word, an           *)
(* occurrence that is no word, behind which find_all goes on.              *)
FindsWhatIsThere(lines, opts) ==
  LET n    == Len(opts.query)
      Fold(text) == IF opts.case_sensitive THEN text ELSE Lower(text)
      pat  == Fold(opts.query)
      all  == UNION {{id} \X Occurrences(Fold(lines[id]), pat) : id \in 1 .. Len(lines)}
      hits == ToSet(SearchStream(lines, opts))
      Word(p) == ~opts.whole_word \/ IsWholeWord(Fold(lines[p[1]]), p[2], n)
      Apart(p, q) == p[1] # q[1] \/ p[2] >= q[2] + n \/ q[2] >= p[2] + n
  IN  IF pat = <<>> THEN hits = {} ELSE
      /\ hits \subseteq {p \in all : Word(p)}
      /\ \A p, q \in hits : p = q \/ Apart(p, q)
      /\ \A p \in all : Word(p) =>
           \E q \in all : ~Apart(p, q) /\ (q \in hits \/ ~Word(q))
=============================================================================
