--------------------------- MODULE HostKeysProofs ---------------------------
(***************************************************************************)
(* For any number of attempts, hosts, keys and policies, and whatever      *)
(* becomes of the file: no shell is opened before the host key is trusted  *)
(* and the user is let in; and as long as the file is not smeared, no      *)
(* attempt goes on with another key than the one that stands whole in the  *)
(* file it loaded (ssh_engine/mod.rs, known_hosts.rs).                     *)
(***************************************************************************)
EXTENDS HostKeys, FiniteSetTheorems, SequenceTheorems, WellFoundedInduction, TLAPS

Fields == {"phase", "host", "entries", "offered", "told", "words", "whole", "cut", "pin", "let_in"}

(* An attempt has its fields, and how far it has come tells what it was    *)
(* told of the key and how much of the entry is written.                   *)
Cautious(a) ==
  /\ a = [f \in Fields |-> a[f]]
  /\ a.phase \in {"idle", "loaded", "writing", "trusted", "up"}
  /\ a.phase \in {"idle", "loaded"} => a.words = 0
  /\ a.phase = "writing" => a.told = "new" /\ a.words \in 0 .. LastWord - 1
  /\ a.phase \in Trusting => \/ a.told = "matches"
                             \/ a.told = "new" /\ a.words = LastWord
  /\ a.phase = "up" => a.let_in

TrustInv ==
  /\ attempt = [s \in Attempts |-> attempt[s]]
  /\ \A s \in Attempts : Cautious(attempt[s])

-----------------------------------------------------------------------------
(* An attempt that has not begun is cautious.                              *)
LEMMA IdleIsCautious == Cautious(Idle)
BY DEF Cautious, Idle, Fields, Trusting

(* So are all, when one changes and is.                                    *)
LEMMA OneChanges ==
  ASSUME TrustInv, NEW s \in Attempts, NEW a, Cautious(a), Set(s, a)
  PROVE  TrustInv'
BY DEF TrustInv, Set

(* What others write makes no attempt less cautious.                       *)
LEMMA OthersWrite ==
  ASSUME TrustInv, NEW s, NEW ends
  PROVE  /\ Disturbed(s, ends) = [r \in Attempts |-> Disturbed(s, ends)[r]]
         /\ \A r \in Attempts : Cautious(Disturbed(s, ends)[r])
<1>1. ASSUME NEW r \in Attempts
      PROVE  Cautious([attempt[r] EXCEPT !.whole = FALSE, !.cut = @ \/ ends])
  BY DEF TrustInv, Cautious, Fields
<1> QED
  BY <1>1 DEF Disturbed, TrustInv

(* connect loads the store and waits for the server's key.                 *)
LEMMA ConnectKeeps ==
  ASSUME TrustInv, NEW s \in Attempts, Connect(s)
  PROVE  TrustInv'
<1>1. PICK h \in Hosts :
        Set(s, [Idle EXCEPT !.phase = "loaded", !.host = h,
                            !.entries = Load(file), !.pin = pins[h]])
  BY DEF Connect
<1> DEFINE a == [Idle EXCEPT !.phase = "loaded", !.host = h,
                             !.entries = Load(file), !.pin = pins[h]]
<1>2. Cautious(a)
  BY DEF Cautious, Idle, Fields, Trusting
<1> QED
  BY <1>1, <1>2, OneChanges

(* check_server_key trusts a key that matches, writes one decided on, and  *)
(* refuses any other.                                                      *)
LEMMA CheckKeeps ==
  ASSUME TrustInv, NEW s \in Attempts, CheckServerKey(s)
  PROVE  TrustInv'
<1>1. PICK key \in Keys, policy \in Policies, yes \in BOOLEAN :
        LET verdict == Check(attempt[s].entries, attempt[s].host, key)
            a == [attempt[s] EXCEPT !.offered = key, !.told = verdict, !.entries = Empty]
        IN  CASE verdict = "matches" ->
                   Set(s, [a EXCEPT !.phase = "trusted"]) /\ UNCHANGED ghosts
              [] verdict = "new" /\ Decision(policy, yes) -> Decide(s, a)
              [] OTHER -> Set(s, Idle) /\ UNCHANGED ghosts
  BY DEF CheckServerKey
<1> DEFINE verdict == Check(attempt[s].entries, attempt[s].host, key)
           a == [attempt[s] EXCEPT !.offered = key, !.told = verdict, !.entries = Empty]
<1>2. \/ verdict = "matches" /\ Set(s, [a EXCEPT !.phase = "trusted"])
      \/ verdict = "new" /\ Set(s, [a EXCEPT !.phase = "writing"])
      \/ Set(s, Idle)
  BY <1>1 DEF Decide
<1>3. verdict = "matches" => Cautious([a EXCEPT !.phase = "trusted"])
  BY ZenonT(60) DEF TrustInv, Cautious, Fields, Trusting
<1>4. verdict = "new" => Cautious([a EXCEPT !.phase = "writing"])
  <2>1. attempt[s].phase = "loaded" /\ Cautious(attempt[s]) /\ attempt[s].words = 0
    BY DEF CheckServerKey, Phase, TrustInv, Cautious
  <2>2. 0 \in 0 .. LastWord - 1
    BY DEF LastWord
  <2> HIDE DEF verdict
  <2> QED
    BY <2>1, <2>2 DEF Cautious, Fields, Trusting
<1> QED
  BY <1>2, <1>3, <1>4, IdleIsCautious, OneChanges

(* A word is written; with the last one the key is trusted.                *)
LEMMA WriteKeeps ==
  ASSUME TrustInv, NEW s \in Attempts, WriteWord(s)
  PROVE  TrustInv'
<1> DEFINE a == attempt[s]
           n == a.words + 1
           whole == a.whole /\ (n = 1 => AtLineStart)
           b == [a EXCEPT !.words = n, !.whole = whole,
                          !.phase = IF n = LastWord THEN "trusted" ELSE "writing"]
           ends == EntryWords(a.host, a.offered)[n] = Newline
<1>1. a.phase = "writing" /\ attempt' = [Disturbed(s, ends) EXCEPT ![s] = b]
  BY DEF WriteWord, Phase
<1>2. Cautious(b)
  <2>1. /\ Cautious(a) /\ a.told = "new" /\ a.words \in 0 .. LastWord - 1
        /\ n \in 1 .. LastWord /\ (n # LastWord => n \in 0 .. LastWord - 1)
    BY <1>1 DEF TrustInv, Cautious, LastWord
  <2> HIDE DEF a, n, whole
  <2> QED
    BY <2>1 DEF Cautious, Fields, Trusting
<1>3. /\ attempt' = [r \in Attempts |-> IF r = s THEN b ELSE Disturbed(s, ends)[r]]
      /\ \A r \in Attempts : Cautious(Disturbed(s, ends)[r])
  <2> HIDE DEF ends, b
  <2> QED
    BY <1>1, OthersWrite
<1> HIDE DEF b
<1>4. \A r \in Attempts : Cautious(attempt'[r])
  BY <1>2, <1>3
<1>5. attempt' = [r \in Attempts |-> attempt'[r]]
  BY <1>3
<1> QED
  BY <1>4, <1>5 DEF TrustInv

(* A write that fails leaves the attempt with nothing, the others with     *)
(* what they had.                                                          *)
LEMMA FailureKeeps ==
  ASSUME TrustInv, NEW s \in Attempts, WriteFails(s)
  PROVE  TrustInv'
<1>1. CASE Set(s, Idle)
  BY <1>1, IdleIsCautious, OneChanges
<1>2. CASE attempt' = [Disturbed(s, FALSE) EXCEPT ![s] = Idle]
  <2>1. /\ attempt' = [r \in Attempts |-> IF r = s THEN Idle ELSE Disturbed(s, FALSE)[r]]
        /\ \A r \in Attempts : Cautious(Disturbed(s, FALSE)[r])
    BY <1>2, OthersWrite
  <2>2. \A r \in Attempts : Cautious(attempt'[r])
    BY <2>1, IdleIsCautious
  <2>3. attempt' = [r \in Attempts |-> attempt'[r]]
    BY <2>1
  <2> QED
    BY <2>2, <2>3 DEF TrustInv
<1> QED
  BY <1>1, <1>2 DEF WriteFails, AfterFailedWrite

(* A user who is let in gets a shell, anyone else nothing.                 *)
LEMMA LogInKeeps ==
  ASSUME TrustInv, NEW s \in Attempts, LogIn(s)
  PROVE  TrustInv'
<1> DEFINE up(answers) == [attempt[s] EXCEPT !.phase = "up",
                                             !.let_in = "accepted" \in ToSet(answers)]
<1>1. PICK answers \in BoundedSeq({"accepted", "rejected"}, MaxIdentities) :
        \/ Authenticated(answers) /\ Set(s, up(answers))
        \/ Set(s, Idle)
  BY DEF LogIn
<1>2. Authenticated(answers) => Cautious(up(answers))
  <2>1. Cautious(attempt[s]) /\ attempt[s].phase = "trusted"
    BY DEF LogIn, Phase, TrustInv
  <2> QED
    BY <2>1 DEF Authenticated, Cautious, Fields, Trusting
<1> HIDE DEF up
<1> QED
  BY <1>1, <1>2, IdleIsCautious, OneChanges

(* Whatever the attempts and --forget-host do to each other.               *)
LEMMA StepKeepsTrust == TrustInv /\ [Next]_vars => TrustInv'
<1> SUFFICES ASSUME TrustInv, [Next]_vars PROVE TrustInv'
  OBVIOUS
<1>1. ASSUME NEW s \in Attempts, Step(s) PROVE TrustInv'
  <2>1. CASE Close(s) \/ Kill(s)
    <3>1. Set(s, Idle)
      BY <2>1 DEF Close, Kill
    <3> QED
      BY <3>1, IdleIsCautious, OneChanges
  <2> QED
    BY <1>1, <2>1, ConnectKeeps, CheckKeeps, WriteKeeps, FailureKeeps, LogInKeeps DEF Step
<1>2. CASE Forget
  <2>1. CASE UNCHANGED attempt
    BY <2>1 DEF TrustInv
  <2>2. CASE attempt' = Disturbed(None, TRUE)
    BY <2>2, OthersWrite DEF TrustInv
  <2> QED
    BY <1>2, <2>1, <2>2 DEF Forget, ForgetLoad, ForgetTruncate, ForgetWrite, ForgetKilled
<1>3. CASE UNCHANGED vars
  BY <1>3 DEF vars, TrustInv
<1> QED
  BY <1>1, <1>2, <1>3 DEF Next

(* Under every policy, and through kills, failed writes and a file cut or  *)
(* rewritten by other processes: a shell is up only when the server let    *)
(* the user in, and its key was in the store or was accepted and written   *)
(* to the last word.                                                       *)
THEOREM ShellsAreTrusted == Spec => []ShellNeedsTrust
<1>1. Init => TrustInv
  BY IdleIsCautious DEF Init, TrustInv
<1>2. TrustInv => ShellNeedsTrust
  BY DEF TrustInv, ShellNeedsTrust, Cautious, Phase, Trusting, LastWord
<1> QED
  BY <1>1, <1>2, StepKeepsTrust, PTL DEF Spec

(* What is in the file.                                                    *)
Word == Hosts \union Keys \union {Space, Algo, Newline, NamePiece, WordPiece}

LastLine(words) == LineAt(words, Max(LineStarts(words)))

-----------------------------------------------------------------------------
(* A set of numbers that is not empty has a least one.                     *)
LEMMA SmallestNumber ==
  ASSUME NEW S \in SUBSET Nat, S # {}
  PROVE  \E k \in S : \A j \in S : k <= j
<1> DEFINE less == {p \in Nat \X Nat : p[1] < p[2]}
<1>1. IsWellFoundedOn(less, Nat)
  BY NatLessThanWellFounded DEF OpToRel
<1>2. PICK k \in S : \A j \in S : <<j, k>> \notin less
  <2> HIDE DEF less
  <2> QED
    BY <1>1, WFMin
<1>3. \A j \in S : k <= j
  <2> TAKE j \in S
  <2>1. <<j, k>> \in Nat \X Nat /\ <<j, k>>[1] = j /\ <<j, k>>[2] = k
    OBVIOUS
  <2>2. ~(j < k)
    BY <2>1, <1>2
  <2> QED
    BY <2>2
<1> QED
  BY <1>3

(* One with a bound has a greatest.                                        *)
LEMMA GreatestNumber ==
  ASSUME NEW n \in Nat, NEW S \in SUBSET (0 .. n), S # {}
  PROVE  \E k \in S : \A j \in S : j <= k
<1> DEFINE below == {i \in 0 .. n : n - i \in S}
<1>1. ASSUME NEW j \in S PROVE n - j \in below
  <2>1. j \in 0 .. n
    OBVIOUS
  <2>2. n - j \in 0 .. n /\ n - (n - j) = j
    BY <2>1
  <2> QED
    BY <2>2
<1>2. below \in SUBSET Nat /\ below # {}
  <2>1. below \in SUBSET Nat
    OBVIOUS
  <2>2. PICK j \in S : TRUE
    OBVIOUS
  <2> HIDE DEF below
  <2> QED
    BY <1>1, <2>1, <2>2
<1>3. PICK i \in below : \A j \in below : i <= j
  <2> HIDE DEF below
  <2> QED
    BY <1>2, SmallestNumber
<1>4. n - i \in S /\ i \in Int
  OBVIOUS
<1> HIDE DEF below
<1>5. ASSUME NEW j \in S PROVE j <= n - i
  <2>1. i <= n - j /\ j \in Int
    BY <1>1, <1>3
  <2> QED
    BY <1>4, <2>1
<1> QED
  BY <1>4, <1>5

(* Min and Max of a set that has them.                                     *)
LEMMA MinIs ==
  ASSUME NEW S \in SUBSET Int, NEW m \in S, \A j \in S : m <= j
  PROVE  Min(S) = m
<1>1. Min(S) \in S /\ \A j \in S : Min(S) <= j
  BY Zenon DEF Min
<1>2. Min(S) \in Int /\ m \in Int /\ m <= Min(S) /\ Min(S) <= m
  BY <1>1
<1> QED
  BY <1>2

(* And so is the greatest.                                                 *)
LEMMA MaxIs ==
  ASSUME NEW S \in SUBSET Int, NEW m \in S, \A j \in S : j <= m
  PROVE  Max(S) = m
<1>1. Max(S) \in S /\ \A j \in S : Max(S) >= j
  <2>1. \A j \in S : m >= j
    OBVIOUS
  <2> QED
    BY <2>1, Zenon DEF Max
<1>2. Max(S) \in Int /\ m \in Int /\ m <= Max(S) /\ Max(S) <= m
  BY <1>1
<1> QED
  BY <1>2

(* Where two sequences have the same words, they have the same pieces.     *)
LEMMA SamePiece ==
  ASSUME NEW f \in Seq(Word), NEW g \in Seq(Word), NEW i \in Int, NEW j \in Int,
         \A k \in i .. j : k \in 1 .. Len(f) /\ g[k] = f[k]
  PROVE  SubSeq(g, i, j) = SubSeq(f, i, j)
<1>1. \A k \in i .. j : f[k] \in Word /\ g[k] \in Word
  OBVIOUS
<1>2. /\ SubSeq(f, i, j) \in Seq(Word) /\ SubSeq(g, i, j) \in Seq(Word)
      /\ Len(SubSeq(f, i, j)) = (IF i <= j THEN j - i + 1 ELSE 0)
      /\ Len(SubSeq(g, i, j)) = (IF i <= j THEN j - i + 1 ELSE 0)
      /\ \A k \in 1 .. j - i + 1 : SubSeq(f, i, j)[k] = f[i + k - 1]
      /\ \A k \in 1 .. j - i + 1 : SubSeq(g, i, j)[k] = g[i + k - 1]
  BY <1>1, SubSeqProperties
<1>3. \A k \in 1 .. j - i + 1 : i + k - 1 \in i .. j
  OBVIOUS
<1>4. \A k \in 1 .. Len(SubSeq(g, i, j)) : SubSeq(g, i, j)[k] = SubSeq(f, i, j)[k]
  <2>1. \A k \in 1 .. Len(SubSeq(g, i, j)) : k \in 1 .. j - i + 1
    BY <1>2
  <2> QED
    BY <1>2, <1>3, <2>1
<1> QED
  BY <1>2, <1>4, SeqEqual

-----------------------------------------------------------------------------
(* Entries. A line is trimmed to f .. l, and a and b are the first two     *)
(* spaces in it.                                                           *)
Parts(line, f, a, b, l) ==
  /\ f \in 1 .. Len(line) /\ l \in 1 .. Len(line) /\ a \in Int /\ b \in Int
  /\ f < a /\ a < b /\ b < l
  /\ line[f] # Space /\ line[a] = Space /\ line[b] = Space /\ line[l] # Space
  /\ \A i \in 1 .. Len(line) : /\ i < f => line[i] = Space
                               /\ f < i /\ i < a => line[i] # Space
                               /\ a < i /\ i < b => line[i] # Space
                               /\ l < i => line[i] = Space

(* Such a line is the entry with these parts.                              *)
LEMMA EntryIs ==
  ASSUME NEW line \in Seq(Word), NEW f, NEW a, NEW b, NEW l, Parts(line, f, a, b, l)
  PROVE  EntryOf(line) = <<SubSeq(line, f, a - 1), SubSeq(line, a + 1, b - 1), SubSeq(line, b + 1, l)>>
<1> DEFINE gaps == Gaps(line)
           ink == Ink(line)
<1>0. f \in Int /\ a \in Int /\ b \in Int /\ l \in Int /\ Len(line) \in Nat /\ DOMAIN line = 1 .. Len(line)
  BY DEF Parts
<1>1. Min(ink) = f /\ Max(ink) = l
  <2>1. ink \in SUBSET Int /\ f \in ink /\ l \in ink
    BY <1>0 DEF Parts, Ink
  <2>2. \A j \in ink : f <= j /\ j <= l
    BY <1>0 DEF Parts, Ink
  <2> HIDE DEF ink
  <2> QED
    BY <2>1, <2>2, MinIs, MaxIs
<1>2. a \in gaps /\ b \in gaps /\ gaps \in SUBSET Int
  <2>1. f \in ink /\ l \in ink /\ a \in DOMAIN line \ ink /\ b \in DOMAIN line \ ink
    BY <1>0 DEF Parts, Ink
  <2>2. f < a /\ a < l /\ f < b /\ b < l
    BY <1>0 DEF Parts
  <2> QED
    BY <1>0, <2>1, <2>2 DEF Gaps
<1>3. \A j \in gaps : j \in 1 .. Len(line) /\ line[j] = Space /\ j > f
  <2> SUFFICES ASSUME NEW j \in gaps PROVE j \in 1 .. Len(line) /\ line[j] = Space /\ j > f
    OBVIOUS
  <2>1. PICK i \in ink : i < j
    BY DEF Gaps
  <2> QED
    BY <1>0, <2>1 DEF Gaps, Ink, Parts
<1>4. \A j \in gaps : a <= j /\ (j # a => b <= j)
  BY <1>0, <1>3 DEF Parts
<1>5. Min(gaps) = a /\ Min(gaps \ {a}) = b
  <2> HIDE DEF gaps
  <2>1. Min(gaps) = a
    BY <1>2, <1>4, MinIs
  <2>2. b \in gaps \ {a}
    BY <1>2 DEF Parts
  <2> QED
    BY <1>2, <1>4, <2>1, <2>2, MinIs
<1>6. ~(\A i, j \in gaps : i = j)
  BY <1>2 DEF Parts
<1> HIDE DEF gaps, ink
<1> QED
  BY <1>1, <1>5, <1>6 DEF EntryOf, gaps, ink

(* Every entry has such parts.                                             *)
LEMMA EntryHas ==
  ASSUME NEW line \in Seq(Word), EntryOf(line) # <<>>
  PROVE  \E f, a, b, l : Parts(line, f, a, b, l)
<1> DEFINE gaps == Gaps(line)
           ink == Ink(line)
           n == Len(line)
<1>0. n \in Nat /\ DOMAIN line = 1 .. n
  OBVIOUS
<1>1. PICK i \in gaps, j \in gaps : i # j
  BY DEF EntryOf
<1>2. gaps \in SUBSET Nat /\ gaps \in SUBSET (1 .. n) /\ ink \in SUBSET (1 .. n) /\ ink \in SUBSET Nat
      /\ ink \in SUBSET (0 .. n)
  BY <1>0 DEF Gaps, Ink
<1>3. ink # {}
  BY <1>1 DEF Gaps
<1>4. PICK f \in ink : \A k \in ink : f <= k
  <2> HIDE DEF ink
  <2> QED
    BY <1>2, <1>3, SmallestNumber
<1>5. PICK l \in ink : \A k \in ink : k <= l
  <2> HIDE DEF ink
  <2> QED
    BY <1>0, <1>2, <1>3, GreatestNumber
<1>6. PICK a \in gaps : \A k \in gaps : a <= k
  <2> HIDE DEF gaps
  <2> QED
    BY <1>1, <1>2, SmallestNumber
<1>7. PICK b \in gaps \ {a} : \A k \in gaps \ {a} : b <= k
  <2>1. gaps \ {a} \in SUBSET Nat /\ gaps \ {a} # {}
    BY <1>1, <1>2
  <2> HIDE DEF gaps
  <2> QED
    BY <2>1, SmallestNumber
<1>8. \A k \in gaps : line[k] = Space /\ f < k /\ k < l
  <2> SUFFICES ASSUME NEW k \in gaps PROVE line[k] = Space /\ f < k /\ k < l
    OBVIOUS
  <2>1. k \in 1 .. n /\ line[k] = Space
    BY <1>0 DEF Gaps, Ink
  <2>2. PICK u \in ink, v \in ink : u < k /\ k < v
    BY DEF Gaps
  <2> QED
    BY <1>2, <1>4, <1>5, <2>1, <2>2
<1>9. a < b
  BY <1>2, <1>6, <1>7
<1>10. ASSUME NEW k \in 1 .. n, f < k, k < b, k # a PROVE line[k] # Space
  <2>1. k \notin gaps
    BY <1>2, <1>6, <1>7, <1>10
  <2>2. k < l
    BY <1>2, <1>5, <1>7, <1>8, <1>10
  <2> QED
    BY <1>0, <1>4, <1>5, <1>10, <2>1, <2>2 DEF Gaps, Ink
<1>11. ASSUME NEW k \in 1 .. n, k < f \/ l < k PROVE line[k] = Space
  BY <1>0, <1>2, <1>4, <1>5, <1>11 DEF Ink
<1>12. line[f] # Space /\ line[l] # Space
  BY <1>4, <1>5 DEF Ink
<1> HIDE DEF gaps, ink
<1>13. f \in 1 .. n /\ l \in 1 .. n /\ a \in 1 .. n /\ b \in 1 .. n /\ f < a /\ b < l
  BY <1>2, <1>4, <1>5, <1>6, <1>7, <1>8
<1>14. line[a] = Space /\ line[b] = Space
  BY <1>6, <1>7, <1>8
<1>15. \A m \in 1 .. n : /\ m < f => line[m] = Space
                         /\ f < m /\ m < a => line[m] # Space
                         /\ a < m /\ m < b => line[m] # Space
                         /\ l < m => line[m] = Space
  BY <1>9, <1>10, <1>11, <1>13
<1>16. Parts(line, f, a, b, l)
  BY <1>9, <1>12, <1>13, <1>14, <1>15 DEF Parts
<1> QED
  BY <1>16

-----------------------------------------------------------------------------
(* Lines. The line that starts at i is known by its end.                   *)
LEMMA LineIs ==
  ASSUME NEW words \in Seq(Word), NEW i \in 1 .. Len(words) + 1, NEW e \in i - 1 .. Len(words),
         \A j \in i .. e : words[j] # Newline,
         e = Len(words) \/ words[e + 1] = Newline
  PROVE  LineAt(words, i) = SubSeq(words, i, e)
<1> DEFINE newlines == {j \in i .. Len(words) : words[j] = Newline}
<1>0. Len(words) \in Nat /\ i \in Int /\ e \in Int
  OBVIOUS
<1>1. CASE e = Len(words)
  <2>1. newlines = {}
    BY <1>1
  <2> QED
    BY <1>1, <2>1 DEF LineAt
<1>2. CASE e # Len(words)
  <2>1. e + 1 \in newlines /\ newlines \in SUBSET Int
    BY <1>0, <1>2
  <2>2. \A j \in newlines : e + 1 <= j
    BY <1>0, <1>2
  <2> HIDE DEF newlines
  <2>3. Min(newlines) = e + 1
    BY <2>1, <2>2, MinIs
  <2>4. newlines # {} /\ Min(newlines) - 1 = e
    BY <1>0, <2>1, <2>3
  <2> QED
    BY <2>4 DEF LineAt, newlines
<1> QED
  BY <1>1, <1>2

(* Every line has such an end.                                             *)
LEMMA LineHas ==
  ASSUME NEW words \in Seq(Word), NEW i \in 1 .. Len(words) + 1
  PROVE  \E e \in i - 1 .. Len(words) :
           /\ \A j \in i .. e : words[j] # Newline
           /\ e = Len(words) \/ words[e + 1] = Newline
<1> DEFINE newlines == {j \in i .. Len(words) : words[j] = Newline}
<1>0. Len(words) \in Nat /\ i \in Int /\ i - 1 <= Len(words)
  OBVIOUS
<1>1. CASE newlines = {}
  <2>1. \A j \in i .. Len(words) : words[j] # Newline
    BY <1>1
  <2>2. Len(words) \in i - 1 .. Len(words)
    BY <1>0
  <2> QED
    BY <2>1, <2>2
<1>2. CASE newlines # {}
  <2>1. newlines \in SUBSET Nat
    BY <1>0
  <2>2. PICK m \in newlines : \A j \in newlines : m <= j
    <3> HIDE DEF newlines
    <3> QED
      BY <1>2, <2>1, SmallestNumber
  <2>3. m \in i .. Len(words) /\ words[m] = Newline
    OBVIOUS
  <2>4. \A j \in i .. m - 1 : words[j] # Newline
    <3> SUFFICES ASSUME NEW j \in i .. m - 1 PROVE words[j] # Newline
      OBVIOUS
    <3>1. j \in i .. Len(words) /\ ~(m <= j)
      BY <1>0, <2>3
    <3> QED
      BY <2>2, <3>1
  <2>5. m - 1 \in i - 1 .. Len(words) /\ (m - 1) + 1 = m
    BY <1>0, <2>3
  <2> QED
    BY <2>3, <2>4, <2>5
<1> QED
  BY <1>1, <1>2

(* A line is words that are no newline.                                    *)
LEMMA LineFacts ==
  ASSUME NEW words \in Seq(Word), NEW i \in 1 .. Len(words) + 1
  PROVE  /\ LineAt(words, i) \in Seq(Word)
         /\ \A j \in 1 .. Len(LineAt(words, i)) : LineAt(words, i)[j] # Newline
<1>1. PICK e \in i - 1 .. Len(words) :
           /\ \A j \in i .. e : words[j] # Newline
           /\ e = Len(words) \/ words[e + 1] = Newline
  BY LineHas
<1>2. LineAt(words, i) = SubSeq(words, i, e)
  BY <1>1, LineIs
<1>3. i \in Int /\ e \in Int /\ \A j \in i .. e : words[j] \in Word
  OBVIOUS
<1>4. /\ SubSeq(words, i, e) \in Seq(Word)
      /\ Len(SubSeq(words, i, e)) = IF i <= e THEN e - i + 1 ELSE 0
      /\ \A j \in 1 .. e - i + 1 : SubSeq(words, i, e)[j] = words[i + j - 1]
  BY <1>3, SubSeqProperties
<1>5. ASSUME NEW j \in 1 .. Len(SubSeq(words, i, e)) PROVE SubSeq(words, i, e)[j] # Newline
  <2>1. j \in 1 .. e - i + 1 /\ i + j - 1 \in i .. e
    BY <1>3, <1>4
  <2> QED
    BY <1>1, <1>4, <2>1
<1> QED
  BY <1>2, <1>4, <1>5

(* Lines start within the file or right after it, one at its beginning.    *)
LEMMA StartsType ==
  ASSUME NEW words \in Seq(Word)
  PROVE  LineStarts(words) \in SUBSET (1 .. Len(words) + 1) /\ 1 \in LineStarts(words)
         /\ Len(words) \in Nat
BY DEF LineStarts

(* The last line goes to the end of the file.                              *)
LEMMA LastLineIs ==
  ASSUME NEW words \in Seq(Word), NEW m \in LineStarts(words), \A i \in LineStarts(words) : i <= m
  PROVE  /\ \A j \in m .. Len(words) : words[j] # Newline
         /\ LastLine(words) = LineAt(words, m)
         /\ LineAt(words, m) = SubSeq(words, m, Len(words))
<1>1. LineStarts(words) \in SUBSET Int /\ m \in 1 .. Len(words) + 1 /\ Len(words) \in Nat
  BY StartsType
<1>2. LastLine(words) = LineAt(words, m)
  BY <1>1, MaxIs DEF LastLine
<1>3. ASSUME NEW j \in m .. Len(words), words[j] = Newline PROVE FALSE
  <2>1. j + 1 \in 1 .. Len(words) + 1 /\ (j + 1) - 1 = j /\ ~(j + 1 <= m)
    BY <1>1
  <2>2. j + 1 \in LineStarts(words)
    BY <1>3, <2>1 DEF LineStarts
  <2> QED
    BY <2>1, <2>2
<1>4. Len(words) \in m - 1 .. Len(words)
  BY <1>1
<1> QED
  BY <1>1, <1>2, <1>3, <1>4, LineIs

(* There is a last line.                                                   *)
LEMMA LastStart ==
  ASSUME NEW words \in Seq(Word)
  PROVE  \E m \in LineStarts(words) : \A i \in LineStarts(words) : i <= m
<1>1. LineStarts(words) \in SUBSET (0 .. Len(words) + 1) /\ LineStarts(words) # {}
      /\ Len(words) + 1 \in Nat
  BY StartsType
<1> QED
  BY <1>1, GreatestNumber

-----------------------------------------------------------------------------
(* The store is what the last line of each host says.                      *)
LEMMA StoreIs ==
  ASSUME NEW words \in Seq(Word), NEW t
  PROVE  /\ t \in DOMAIN Load(words) <=> StartsOf(words, t) # {}
         /\ \A m \in StartsOf(words, t) :
              (\A i \in StartsOf(words, t) : i <= m) => Load(words)[t] = Tail(EntryAt(words, m))
         /\ StartsOf(words, t) # {} =>
              \E m \in StartsOf(words, t) : \A i \in StartsOf(words, t) : i <= m
<1>1. StartsOf(words, t) \in SUBSET (0 .. Len(words) + 1) /\ Len(words) + 1 \in Nat
  BY StartsType DEF StartsOf, EntryStarts
<1>2. t \in DOMAIN Load(words) <=> StartsOf(words, t) # {}
  BY DEF Load, StartsOf
<1>3. ASSUME NEW m \in StartsOf(words, t), \A i \in StartsOf(words, t) : i <= m
      PROVE  Load(words)[t] = Tail(EntryAt(words, m))
  <2>1. Max(StartsOf(words, t)) = m
    <3>1. StartsOf(words, t) \in SUBSET Int
      BY <1>1
    <3> QED
      BY <1>3, <3>1, MaxIs
  <2>2. Load(words)[t] = Tail(EntryAt(words, Max(StartsOf(words, t))))
    <3>1. t \in {EntryAt(words, i)[1] : i \in EntryStarts(words)}
      BY DEF StartsOf
    <3> QED
      BY <3>1 DEF Load
  <2> QED
    BY <2>1, <2>2
<1> QED
  BY <1>1, <1>2, <1>3, GreatestNumber

(* Two files that say the same of a host.                                  *)
LEMMA SameStore ==
  ASSUME NEW f \in Seq(Word), NEW g \in Seq(Word), NEW t,
         StartsOf(g, t) = StartsOf(f, t),
         \A i \in StartsOf(f, t) : EntryAt(g, i) = EntryAt(f, i)
  PROVE  /\ t \in DOMAIN Load(g) <=> t \in DOMAIN Load(f)
         /\ t \in DOMAIN Load(f) => Load(g)[t] = Load(f)[t]
<1>1. t \in DOMAIN Load(g) <=> t \in DOMAIN Load(f)
  BY StoreIs
<1>2. ASSUME t \in DOMAIN Load(f) PROVE Load(g)[t] = Load(f)[t]
  <2>1. PICK m \in StartsOf(f, t) : \A i \in StartsOf(f, t) : i <= m
    BY <1>2, StoreIs
  <2>2. Load(f)[t] = Tail(EntryAt(f, m))
    BY <2>1, StoreIs
  <2>3. Load(g)[t] = Tail(EntryAt(g, m))
    BY <2>1, StoreIs
  <2> QED
    BY <2>1, <2>2, <2>3
<1> QED
  BY <1>1, <1>2

-----------------------------------------------------------------------------
(* A word that is no newline goes to the end of the last line.             *)
LEMMA WordAppended ==
  ASSUME NEW f \in Seq(Word), NEW w \in Word, w # Newline,
         NEW m \in LineStarts(f), \A i \in LineStarts(f) : i <= m
  PROVE  /\ LineStarts(Append(f, w)) = LineStarts(f)
         /\ \A i \in LineStarts(f) : i # m => LineAt(Append(f, w), i) = LineAt(f, i)
         /\ LineAt(Append(f, w), m) = Append(LineAt(f, m), w)
         /\ LastLine(Append(f, w)) = Append(LineAt(f, m), w)
<1> DEFINE g == Append(f, w)
           n == Len(f)
<1>1. /\ n \in Nat /\ g \in Seq(Word) /\ Len(g) = n + 1 /\ g[n + 1] = w
      /\ \A j \in 1 .. n : g[j] = f[j]
  BY AppendProperties
<1>2. m \in 1 .. n + 1 /\ LineStarts(f) \in SUBSET (1 .. n + 1)
  BY StartsType
<1> HIDE DEF g, n
<1>3. LineStarts(g) = LineStarts(f)
  <2>1. ASSUME NEW i \in 1 .. n + 1 PROVE i \in LineStarts(g) <=> i \in LineStarts(f)
    <3>1. i # 1 => i - 1 \in 1 .. n /\ g[i - 1] = f[i - 1]
      BY <1>1
    <3> QED
      BY <1>1, <3>1 DEF LineStarts, n
  <2>2. n + 2 \notin LineStarts(g)
    <3>1. (n + 2) - 1 = n + 1 /\ n + 2 # 1
      BY <1>1
    <3> QED
      BY <1>1, <3>1 DEF LineStarts
  <2>3. \A i : i \in 1 .. Len(g) + 1 => i \in 1 .. n + 1 \/ i = n + 2
    BY <1>1
  <2>4. LineStarts(g) \in SUBSET (1 .. Len(g) + 1)
    BY <1>1, StartsType
  <2> QED
    BY <1>2, <2>1, <2>2, <2>3, <2>4
<1>4. ASSUME NEW i \in LineStarts(f), i # m PROVE LineAt(g, i) = LineAt(f, i)
  <2>0. i \in 1 .. n + 1 /\ i < m
    BY <1>2, <1>4
  <2>1. PICK e \in i - 1 .. n : /\ \A j \in i .. e : f[j] # Newline
                                /\ e = n \/ f[e + 1] = Newline
    BY <2>0, LineHas DEF n
  <2>2. f[m - 1] = Newline /\ m - 1 \in i .. n
    <3>1. m # 1
      BY <1>2, <2>0
    <3> QED
      BY <1>1, <1>2, <2>0, <3>1 DEF LineStarts
  <2>3. e # n /\ e \in Int
    BY <1>1, <2>0, <2>1, <2>2
  <2>4. e + 1 \in 1 .. n /\ f[e + 1] = Newline /\ e \in i - 1 .. Len(g) /\ i \in 1 .. Len(g) + 1
    BY <1>1, <2>0, <2>1, <2>3
  <2>5. g[e + 1] = Newline
    BY <1>1, <2>4
  <2>6. \A j \in i .. e : j \in 1 .. n /\ g[j] = f[j] /\ g[j] # Newline
    BY <1>1, <2>0, <2>1
  <2>7. LineAt(f, i) = SubSeq(f, i, e)
    BY <2>0, <2>1, LineIs DEF n
  <2>8. LineAt(g, i) = SubSeq(g, i, e)
    BY <1>1, <2>4, <2>5, <2>6, LineIs
  <2>9. SubSeq(g, i, e) = SubSeq(f, i, e)
    <3>1. i \in Int /\ \A j \in i .. e : j \in 1 .. n /\ g[j] = f[j]
      BY <2>0, <2>6
    <3> QED
      BY <1>1, <2>3, <3>1, SamePiece DEF n
  <2> QED
    BY <2>7, <2>8, <2>9
<1>5. LineAt(g, m) = Append(LineAt(f, m), w) /\ LastLine(g) = LineAt(g, m)
  <2>1. LineAt(f, m) = SubSeq(f, m, n)
    BY LastLineIs DEF n
  <2>2. LineAt(g, m) = SubSeq(g, m, n + 1) /\ LastLine(g) = LineAt(g, m)
    <3>1. m \in LineStarts(g) /\ \A i \in LineStarts(g) : i <= m
      BY <1>3
    <3> QED
      BY <1>1, <3>1, LastLineIs
  <2>3. SubSeq(g, m, n + 1) = Append(SubSeq(f, m, n), w)
    BY <1>1, <1>2 DEF n, g
  <2> QED
    BY <2>1, <2>2, <2>3
<1> QED
  BY <1>3, <1>4, <1>5 DEF g

(* A newline begins an empty line and leaves the others.                   *)
LEMMA NewlineAppended ==
  ASSUME NEW f \in Seq(Word)
  PROVE  /\ LineStarts(Append(f, Newline)) = LineStarts(f) \union {Len(f) + 2}
         /\ \A i \in LineStarts(f) : LineAt(Append(f, Newline), i) = LineAt(f, i)
         /\ LineAt(Append(f, Newline), Len(f) + 2) = <<>>
         /\ LastLine(Append(f, Newline)) = <<>>
<1> DEFINE g == Append(f, Newline)
           n == Len(f)
<1>0. Newline \in Word
  BY DEF Word
<1>1. /\ n \in Nat /\ g \in Seq(Word) /\ Len(g) = n + 1 /\ g[n + 1] = Newline
      /\ \A j \in 1 .. n : g[j] = f[j]
  BY <1>0, AppendProperties
<1>2. LineStarts(f) \in SUBSET (1 .. n + 1)
  BY StartsType
<1> HIDE DEF g, n
<1>3. LineStarts(g) = LineStarts(f) \union {n + 2}
  <2>1. ASSUME NEW i \in 1 .. n + 1 PROVE i \in LineStarts(g) <=> i \in LineStarts(f)
    <3>1. i # 1 => i - 1 \in 1 .. n /\ g[i - 1] = f[i - 1]
      BY <1>1
    <3> QED
      BY <1>1, <3>1 DEF LineStarts, n
  <2>2. n + 2 \in LineStarts(g)
    <3>1. (n + 2) - 1 = n + 1 /\ n + 2 \in 1 .. Len(g) + 1
      BY <1>1
    <3> QED
      BY <1>1, <3>1 DEF LineStarts
  <2>3. \A i : i \in 1 .. Len(g) + 1 => i \in 1 .. n + 1 \/ i = n + 2
    BY <1>1
  <2>4. LineStarts(g) \in SUBSET (1 .. Len(g) + 1)
    BY <1>1, StartsType
  <2> QED
    BY <1>2, <2>1, <2>2, <2>3, <2>4
<1>4. ASSUME NEW i \in LineStarts(f) PROVE LineAt(g, i) = LineAt(f, i)
  <2>0. i \in 1 .. n + 1 /\ i \in Int
    BY <1>2
  <2>1. PICK e \in i - 1 .. n : /\ \A j \in i .. e : f[j] # Newline
                                /\ e = n \/ f[e + 1] = Newline
    BY <2>0, LineHas DEF n
  <2>4. e \in Int /\ e \in i - 1 .. Len(g) /\ i \in 1 .. Len(g) + 1
    BY <1>1, <2>0, <2>1
  <2>5. g[e + 1] = Newline
    BY <1>1, <2>0, <2>1, <2>4
  <2>6. \A j \in i .. e : j \in 1 .. n /\ g[j] = f[j] /\ g[j] # Newline
    BY <1>1, <2>0, <2>1
  <2>7. LineAt(f, i) = SubSeq(f, i, e)
    BY <2>0, <2>1, LineIs DEF n
  <2>8. LineAt(g, i) = SubSeq(g, i, e)
    BY <1>1, <2>4, <2>5, <2>6, LineIs
  <2>9. SubSeq(g, i, e) = SubSeq(f, i, e)
    <3>1. \A j \in i .. e : j \in 1 .. n /\ g[j] = f[j]
      BY <2>6
    <3> QED
      BY <1>1, <2>0, <2>4, <3>1, SamePiece DEF n
  <2> QED
    BY <2>7, <2>8, <2>9
<1>5. LineAt(g, n + 2) = <<>> /\ LastLine(g) = LineAt(g, n + 2)
  <2>1. n + 2 \in LineStarts(g) /\ \A i \in LineStarts(g) : i <= n + 2
    BY <1>1, <1>2, <1>3
  <2>2. LineAt(g, n + 2) = SubSeq(g, n + 2, n + 1) /\ LastLine(g) = LineAt(g, n + 2)
    BY <1>1, <2>1, LastLineIs
  <2>3. SubSeq(g, n + 2, n + 1) = <<>>
    BY <1>1, SubSeqEmpty
  <2> QED
    BY <2>2, <2>3
<1> QED
  BY <1>3, <1>4, <1>5 DEF g, n

(* A line of nothing is skipped.                                           *)
LEMMA EmptyLineIsNoEntry == EntryOf(<<>>) = <<>>
<1>1. Gaps(<<>>) = {}
  BY DEF Gaps
<1> QED
  BY <1>1 DEF EntryOf

(* A file of nothing has an empty line, and its store no host.             *)
LEMMA EmptyFile == LastLine(<<>>) = <<>> /\ Load(<<>>) = Empty
<1>1. LineStarts(<<>>) = {1} /\ <<>> \in Seq(Word)
  BY DEF LineStarts
<1>2. LineAt(<<>>, 1) = <<>>
  BY DEF LineAt
<1>3. LastLine(<<>>) = <<>>
  <2>1. 1 \in LineStarts(<<>>) /\ \A i \in LineStarts(<<>>) : i <= 1
    BY <1>1
  <2> QED
    BY <1>1, <1>2, <2>1, LastLineIs
<1>4. EntryStarts(<<>>) = {}
  BY <1>1, <1>2, EmptyLineIsNoEntry DEF EntryStarts, EntryAt
<1> QED
  BY <1>3, <1>4 DEF Load, Empty

-----------------------------------------------------------------------------
(* Of three parts each can be taken.                                       *)
LEMMA ThreeParts ==
  ASSUME NEW x, NEW y, NEW z
  PROVE  /\ <<x, y, z>> # <<>> /\ <<x, y, z>>[1] = x /\ <<x, y, z>>[2] = y /\ <<x, y, z>>[3] = z
         /\ Tail(<<x, y, z>>) = <<y, z>>
OBVIOUS

(* A part of one word is that word.                                        *)
LEMMA OneWord ==
  ASSUME NEW h
  PROVE  Len(<<h>>) = 1 /\ <<h>>[1] = h
OBVIOUS

(* What a word more makes of an entry.  A space at the end is trimmed.     *)
LEMMA SpaceIsTrimmed ==
  ASSUME NEW line \in Seq(Word)
  PROVE  EntryOf(Append(line, Space)) = EntryOf(line)
<1> DEFINE n == Len(line)
           more == Append(line, Space)
<1>1. /\ n \in Nat /\ Space \in Word /\ more \in Seq(Word) /\ Len(more) = n + 1 /\ more[n + 1] = Space
      /\ \A j \in 1 .. n : more[j] = line[j]
  <2>1. Space \in Word
    BY DEF Word
  <2> QED
    BY <2>1, AppendProperties
<1> HIDE DEF more, n
<1>2. ASSUME NEW f, NEW a, NEW b, NEW l PROVE Parts(more, f, a, b, l) <=> Parts(line, f, a, b, l)
  <2>1. \A i : i \in 1 .. n + 1 <=> i \in 1 .. n \/ i = n + 1
    BY <1>1
  <2>2. l \in 1 .. n + 1 /\ more[l] # Space => l \in 1 .. n
    BY <1>1, <2>1
  <2>3. ASSUME Parts(more, f, a, b, l) PROVE Parts(line, f, a, b, l)
    <3>1. /\ f \in 1 .. n + 1 /\ l \in 1 .. n /\ a \in Int /\ b \in Int
          /\ f < a /\ a < b /\ b < l
      BY <1>1, <2>2, <2>3 DEF Parts
    <3>2. f \in 1 .. n /\ a \in 1 .. n /\ b \in 1 .. n
      BY <1>1, <3>1
    <3> QED
      BY <1>1, <2>3, <3>1, <3>2 DEF Parts, n
  <2>4. ASSUME Parts(line, f, a, b, l) PROVE Parts(more, f, a, b, l)
    <3>1. /\ f \in 1 .. n /\ l \in 1 .. n /\ a \in Int /\ b \in Int
          /\ f < a /\ a < b /\ b < l
      BY <2>4 DEF Parts, n
    <3>2. a \in 1 .. n /\ b \in 1 .. n /\ f \in 1 .. n + 1 /\ l \in 1 .. n + 1 /\ l < n + 1
          /\ ~(n + 1 < f) /\ ~(n + 1 < a) /\ ~(n + 1 < b)
      BY <1>1, <3>1
    <3>3. /\ more[f] # Space /\ more[a] = Space /\ more[b] = Space /\ more[l] # Space
      BY <1>1, <2>4, <3>1, <3>2 DEF Parts
    <3>4. \A i \in 1 .. Len(more) :
          /\ i < f => more[i] = Space
          /\ f < i /\ i < a => more[i] # Space
          /\ a < i /\ i < b => more[i] # Space
          /\ l < i => more[i] = Space
      BY <1>1, <2>1, <2>4, <3>1, <3>2 DEF Parts, n
    <3>5. f \in 1 .. Len(more) /\ l \in 1 .. Len(more)
      BY <1>1, <3>2
    <3> QED
      BY <3>1, <3>3, <3>4, <3>5 DEF Parts
  <2> QED
    BY <2>3, <2>4
<1>3. CASE EntryOf(line) = <<>> /\ EntryOf(more) = <<>>
  BY <1>3 DEF more
<1>4. CASE EntryOf(line) # <<>> \/ EntryOf(more) # <<>>
  <2>1. PICK f, a, b, l : Parts(line, f, a, b, l) /\ Parts(more, f, a, b, l)
    BY <1>1, <1>2, <1>4, EntryHas
  <2>2. EntryOf(line) = <<SubSeq(line, f, a - 1), SubSeq(line, a + 1, b - 1), SubSeq(line, b + 1, l)>>
    BY <2>1, EntryIs
  <2>3. EntryOf(more) = <<SubSeq(more, f, a - 1), SubSeq(more, a + 1, b - 1), SubSeq(more, b + 1, l)>>
    BY <1>1, <2>1, EntryIs
  <2>4. ASSUME NEW i \in Int, NEW j \in Int, 1 <= i, j <= n PROVE SubSeq(more, i, j) = SubSeq(line, i, j)
    <3>1. \A k \in i .. j : k \in 1 .. n /\ more[k] = line[k]
      BY <1>1, <2>4
    <3> QED
      BY <1>1, <3>1, SamePiece DEF n
  <2>5. /\ f \in Int /\ a \in Int /\ b \in Int /\ l \in Int /\ 1 <= f /\ f < a /\ a < b /\ b < l /\ l <= n
    BY <1>1, <2>1 DEF Parts, n
  <2>6. SubSeq(more, f, a - 1) = SubSeq(line, f, a - 1)
    <3>1. a - 1 \in Int /\ a - 1 <= n
      BY <1>1, <2>5
    <3> QED
      BY <2>4, <2>5, <3>1
  <2>7. SubSeq(more, a + 1, b - 1) = SubSeq(line, a + 1, b - 1)
    <3>1. b - 1 \in Int /\ b - 1 <= n /\ a + 1 \in Int /\ 1 <= a + 1
      BY <1>1, <2>5
    <3> QED
      BY <2>4, <3>1
  <2>8. SubSeq(more, b + 1, l) = SubSeq(line, b + 1, l)
    <3>1. b + 1 \in Int /\ 1 <= b + 1
      BY <1>1, <2>5
    <3> QED
      BY <2>4, <2>5, <3>1
  <2> QED
    BY <2>2, <2>3, <2>6, <2>7, <2>8 DEF more
<1> QED
  BY <1>3, <1>4

(* Any other goes to the key and leaves the host.                          *)
LEMMA EntryGrows ==
  ASSUME NEW line \in Seq(Word), NEW w \in Word, EntryOf(line) # <<>>
  PROVE  EntryOf(Append(line, w)) # <<>> /\ EntryOf(Append(line, w))[1] = EntryOf(line)[1]
<1> DEFINE n == Len(line)
           more == Append(line, w)
<1>1. /\ n \in Nat /\ more \in Seq(Word) /\ Len(more) = n + 1 /\ more[n + 1] = w
      /\ \A j \in 1 .. n : more[j] = line[j]
  BY AppendProperties
<1> HIDE DEF more, n
<1>2. CASE w = Space
  BY <1>2, SpaceIsTrimmed
<1>3. CASE w # Space
  <2>1. PICK f, a, b, l : Parts(line, f, a, b, l)
    BY EntryHas
  <2>2. /\ f \in 1 .. n /\ l \in 1 .. n /\ a \in Int /\ b \in Int
        /\ f < a /\ a < b /\ b < l
    BY <2>1 DEF Parts, n
  <2>3. Parts(more, f, a, b, n + 1)
    <3>0. \A i : i \in 1 .. n + 1 <=> i \in 1 .. n \/ i = n + 1
      BY <1>1
    <3>1. a \in 1 .. n /\ b \in 1 .. n /\ f \in 1 .. n + 1 /\ n + 1 \in 1 .. n + 1 /\ b < n + 1
          /\ ~(n + 1 < f) /\ ~(n + 1 < a) /\ ~(n + 1 < b)
      BY <1>1, <2>2
    <3>2. /\ more[f] # Space /\ more[a] = Space /\ more[b] = Space /\ more[n + 1] # Space
      BY <1>1, <1>3, <2>1, <2>2, <3>1 DEF Parts
    <3>3. \A i \in 1 .. Len(more) :
          /\ i < f => more[i] = Space
          /\ f < i /\ i < a => more[i] # Space
          /\ a < i /\ i < b => more[i] # Space
          /\ n + 1 < i => more[i] = Space
      BY <1>1, <2>1, <2>2, <3>0, <3>1 DEF Parts, n
    <3>4. f \in 1 .. Len(more) /\ n + 1 \in 1 .. Len(more)
      BY <1>1, <3>1
    <3> QED
      BY <2>2, <3>1, <3>2, <3>3, <3>4 DEF Parts
  <2>4. EntryOf(line) = <<SubSeq(line, f, a - 1), SubSeq(line, a + 1, b - 1), SubSeq(line, b + 1, l)>>
    BY <2>1, EntryIs
  <2>5. EntryOf(more) = <<SubSeq(more, f, a - 1), SubSeq(more, a + 1, b - 1), SubSeq(more, b + 1, n + 1)>>
    <3>1. more \in Seq(Word)
      BY <1>1
    <3> QED
      BY <2>3, <3>1, EntryIs, ZenonT(60)
  <2>6. SubSeq(more, f, a - 1) = SubSeq(line, f, a - 1)
    <3>1. f \in Int /\ a - 1 \in Int /\ \A i \in f .. a - 1 : i \in 1 .. n /\ more[i] = line[i]
      BY <1>1, <2>2
    <3> QED
      BY <1>1, <3>1, SamePiece DEF n
  <2>7. EntryOf(more) # <<>> /\ EntryOf(more)[1] = EntryOf(line)[1]
    <3>1. \E x, y, z, v, u : EntryOf(line) = <<x, y, z>> /\ EntryOf(more) = <<x, v, u>>
      BY <2>4, <2>5, <2>6
    <3> QED
      BY <3>1, ThreeParts
  <2> QED
    BY <2>7 DEF more
<1> QED
  BY <1>2, <1>3

(* The line starts with the word, a space, others that are none, and a     *)
(* space at its end.                                                       *)
Leads(h, line) ==
  \E f \in 1 .. Len(line) :
    /\ line[f] = h /\ h # Space
    /\ \A i \in 1 .. Len(line) :
         /\ i < f => line[i] = Space
         /\ line[i] = Space => i < f \/ i = f + 1 \/ i = Len(line)

(* A line that a word makes an entry of one host and one key: the word is  *)
(* the key, and before it are the host, a space, some words and a space.   *)
LEMMA KeyIsTheLastWord ==
  ASSUME NEW line \in Seq(Word), NEW w \in Word, w # Space, NEW h, NEW k,
         EntryOf(Append(line, w)) # <<>>,
         EntryOf(Append(line, w))[1] = <<h>>, EntryOf(Append(line, w))[3] = <<k>>
  PROVE  k = w /\ Leads(h, line)
<1> DEFINE n == Len(line)
           more == Append(line, w)
<1>1. /\ n \in Nat /\ more \in Seq(Word) /\ Len(more) = n + 1 /\ more[n + 1] = w
      /\ \A j \in 1 .. n : more[j] = line[j]
  BY AppendProperties
<1>0. EntryOf(more) # <<>> /\ EntryOf(more)[1] = <<h>> /\ EntryOf(more)[3] = <<k>>
  OBVIOUS
<1> HIDE DEF more, n
<1>2. PICK f, a, b, l : Parts(more, f, a, b, l)
  BY <1>0, <1>1, EntryHas
<1>3. EntryOf(more) = <<SubSeq(more, f, a - 1), SubSeq(more, a + 1, b - 1), SubSeq(more, b + 1, l)>>
  BY <1>1, <1>2, EntryIs
<1>4. SubSeq(more, f, a - 1) = <<h>> /\ SubSeq(more, b + 1, l) = <<k>>
  BY <1>0, <1>3
<1>5. /\ f \in 1 .. n + 1 /\ l \in 1 .. n + 1 /\ a \in Int /\ b \in Int
      /\ f < a /\ a < b /\ b < l
  BY <1>1, <1>2 DEF Parts
<1>6. l = n + 1
  <2>1. n + 1 \in 1 .. Len(more) /\ ~(l < n + 1)
    BY <1>1, <1>2 DEF Parts
  <2> QED
    BY <1>1, <1>5, <2>1
<1>7. a = f + 1 /\ more[f] = h
  <2>1. Len(SubSeq(more, f, a - 1)) = (a - 1) - f + 1 /\ SubSeq(more, f, a - 1)[1] = more[f]
    BY <1>1, <1>5
  <2>2. (a - 1) - f + 1 = 1 /\ more[f] = h
    BY <1>4, <2>1, OneWord
  <2> QED
    BY <1>5, <2>2
<1>8. b = n /\ k = w
  <2>1. Len(SubSeq(more, b + 1, l)) = l - (b + 1) + 1 /\ SubSeq(more, b + 1, l)[1] = more[b + 1]
    BY <1>1, <1>5
  <2>2. l - (b + 1) + 1 = 1 /\ more[b + 1] = k
    BY <1>4, <2>1, OneWord
  <2>3. b + 1 = n + 1 /\ b = n
    BY <1>1, <1>5, <1>6, <2>2
  <2> QED
    BY <1>1, <2>2, <2>3
<1>9. f \in 1 .. n /\ line[f] = h /\ h # Space
  <2>1. f \in 1 .. n
    BY <1>1, <1>5, <1>8
  <2> QED
    BY <1>1, <1>2, <1>7, <2>1 DEF Parts
<1>10. ASSUME NEW i \in 1 .. n
       PROVE  /\ i < f => line[i] = Space
              /\ line[i] = Space => i < f \/ i = f + 1 \/ i = n
  <2>1. i \in 1 .. Len(more) /\ more[i] = line[i] /\ i \in Int
    BY <1>1
  <2>2. /\ i < f => more[i] = Space
        /\ f < i /\ i < a => more[i] # Space
        /\ a < i /\ i < b => more[i] # Space
        /\ i = f => more[i] # Space
    BY <1>2, <2>1 DEF Parts
  <2> QED
    BY <1>1, <1>5, <1>7, <1>8, <2>1, <2>2
<1> QED
  BY <1>8, <1>9, <1>10 DEF n, Leads

-----------------------------------------------------------------------------
(* What a word more makes of the store. A space or newline changes nothing.*)
LEMMA BlankKeepsStore ==
  ASSUME NEW f \in Seq(Word), NEW w \in {Space, Newline}, NEW t
  PROVE  /\ t \in DOMAIN Load(Append(f, w)) <=> t \in DOMAIN Load(f)
         /\ t \in DOMAIN Load(f) => Load(Append(f, w))[t] = Load(f)[t]
<1> DEFINE g == Append(f, w)
<1>1. w \in Word /\ g \in Seq(Word)
  BY AppendProperties DEF Word
<1>2. CASE w = Newline
  <2>1. /\ LineStarts(g) = LineStarts(f) \union {Len(f) + 2}
        /\ \A i \in LineStarts(f) : LineAt(g, i) = LineAt(f, i)
        /\ LineAt(g, Len(f) + 2) = <<>>
    BY <1>2, NewlineAppended
  <2> HIDE DEF g
  <2>2. EntryStarts(g) = EntryStarts(f) /\ \A i \in EntryStarts(f) : EntryAt(g, i) = EntryAt(f, i)
    <3>1. EntryAt(g, Len(f) + 2) = <<>>
      BY <2>1, EmptyLineIsNoEntry DEF EntryAt
    <3>2. \A i \in LineStarts(f) : EntryAt(g, i) = EntryAt(f, i)
      BY <2>1 DEF EntryAt
    <3> QED
      BY <2>1, <3>1, <3>2 DEF EntryStarts
  <2>3. StartsOf(g, t) = StartsOf(f, t) /\ \A i \in StartsOf(f, t) : EntryAt(g, i) = EntryAt(f, i)
    BY <2>2 DEF StartsOf
  <2> QED
    BY <1>1, <2>3, SameStore DEF g
<1>3. CASE w = Space /\ w # Newline
  <2>1. PICK m \in LineStarts(f) : \A i \in LineStarts(f) : i <= m
    BY LastStart
  <2>2. /\ LineStarts(g) = LineStarts(f)
        /\ \A i \in LineStarts(f) : i # m => LineAt(g, i) = LineAt(f, i)
        /\ LineAt(g, m) = Append(LineAt(f, m), w)
    BY <1>1, <1>3, <2>1, WordAppended
  <2> HIDE DEF g
  <2>3. \A i \in LineStarts(f) : EntryAt(g, i) = EntryAt(f, i)
    <3>1. LineAt(f, m) \in Seq(Word)
      BY StartsType, LineFacts
    <3>2. EntryAt(g, m) = EntryAt(f, m)
      BY <1>3, <2>2, <3>1, SpaceIsTrimmed DEF EntryAt
    <3> QED
      BY <2>2, <3>2 DEF EntryAt
  <2>4. StartsOf(g, t) = StartsOf(f, t) /\ \A i \in StartsOf(f, t) : EntryAt(g, i) = EntryAt(f, i)
    BY <2>2, <2>3 DEF StartsOf, EntryStarts
  <2> QED
    BY <1>1, <2>4, SameStore DEF g
<1> QED
  BY <1>2, <1>3

(* Another word changes at most what the last line says of its host.       *)
LEMMA WordInStore ==
  ASSUME NEW f \in Seq(Word), NEW w \in Word, w # Newline, NEW t
  PROVE  LET entry == EntryOf(LastLine(Append(f, w)))
             old == Load(f)
             new == Load(Append(f, w))
         IN  \/ entry # <<>> /\ entry[1] = t /\ t \in DOMAIN new /\ new[t] = Tail(entry)
             \/ /\ entry = <<>> \/ entry[1] # t
                /\ t \in DOMAIN new <=> t \in DOMAIN old
                /\ t \in DOMAIN old => new[t] = old[t]
<1> DEFINE g == Append(f, w)
           entry == EntryOf(LastLine(g))
<1>1. g \in Seq(Word)
  BY AppendProperties
<1>2. PICK m \in LineStarts(f) : \A i \in LineStarts(f) : i <= m
  BY LastStart
<1>3. /\ LineStarts(g) = LineStarts(f)
      /\ \A i \in LineStarts(f) : i # m => LineAt(g, i) = LineAt(f, i)
      /\ LineAt(g, m) = Append(LineAt(f, m), w)
      /\ LastLine(g) = LineAt(g, m)
  BY <1>2, WordAppended
<1>4. EntryOf(LineAt(f, m)) # <<>> => EntryOf(LineAt(g, m)) # <<>> /\ EntryOf(LineAt(g, m))[1] = EntryOf(LineAt(f, m))[1]
  <2>1. LineAt(f, m) \in Seq(Word)
    BY StartsType, LineFacts
  <2> QED
    BY <1>3, <2>1, EntryGrows
<1> HIDE DEF g
<1>5. entry = EntryAt(g, m) /\ \A i \in LineStarts(f) : i # m => EntryAt(g, i) = EntryAt(f, i)
  BY <1>3 DEF EntryAt
<1> HIDE DEF entry
<1>6. CASE entry # <<>> /\ entry[1] = t
  <2>1. m \in StartsOf(g, t)
    BY <1>3, <1>5, <1>6 DEF StartsOf, EntryStarts
  <2>2. \A i \in StartsOf(g, t) : i <= m
    BY <1>2, <1>3 DEF StartsOf, EntryStarts
  <2>3. t \in DOMAIN Load(g) /\ Load(g)[t] = Tail(entry)
    BY <1>1, <1>5, <2>1, <2>2, StoreIs
  <2> QED
    BY <1>6, <2>3 DEF g, entry
<1>7. CASE entry = <<>> \/ entry[1] # t
  <2>1. m \notin StartsOf(g, t) /\ m \notin StartsOf(f, t)
    BY <1>4, <1>5, <1>7 DEF StartsOf, EntryStarts, EntryAt
  <2>2. StartsOf(g, t) = StartsOf(f, t) /\ \A i \in StartsOf(f, t) : EntryAt(g, i) = EntryAt(f, i)
    BY <1>3, <1>5, <2>1 DEF StartsOf, EntryStarts
  <2>3. /\ t \in DOMAIN Load(g) <=> t \in DOMAIN Load(f)
        /\ t \in DOMAIN Load(f) => Load(g)[t] = Load(f)[t]
    BY <1>1, <2>2, SameStore
  <2> QED
    BY <1>7, <2>3 DEF g, entry
<1> QED
  BY <1>6, <1>7

(* When it makes a host have one word for a key, it is that word.          *)
LEMMA KeyInStore ==
  ASSUME NEW f \in Seq(Word), NEW w \in Word, w \notin {Space, Newline}, NEW h, NEW k,
         <<h>> \in DOMAIN Load(Append(f, w)), Load(Append(f, w))[<<h>>][2] = <<k>>
  PROVE  \/ <<h>> \in DOMAIN Load(f) /\ Load(f)[<<h>>][2] = <<k>>
         \/ k = w /\ Leads(h, LastLine(f))
<1> DEFINE g == Append(f, w)
           entry == EntryOf(LastLine(g))
<1>1. PICK m \in LineStarts(f) : \A i \in LineStarts(f) : i <= m
  BY LastStart
<1>2. LastLine(f) = LineAt(f, m) /\ LastLine(g) = Append(LineAt(f, m), w) /\ LineAt(f, m) \in Seq(Word)
  BY <1>1, WordAppended, LastLineIs, StartsType, LineFacts
<1>3. \/ entry # <<>> /\ entry[1] = <<h>> /\ Load(g)[<<h>>] = Tail(entry)
      \/ /\ <<h>> \in DOMAIN Load(g) <=> <<h>> \in DOMAIN Load(f)
         /\ <<h>> \in DOMAIN Load(f) => Load(g)[<<h>>] = Load(f)[<<h>>]
  BY WordInStore
<1>4. CASE entry # <<>> /\ entry[1] = <<h>> /\ Load(g)[<<h>>] = Tail(entry)
  <2>1. \E x, y, z : entry = <<x, y, z>>
    BY <1>4 DEF EntryOf
  <2>2. entry[3] = <<k>>
    <3> HIDE DEF entry
    <3>1. Tail(entry)[2] = entry[3]
      BY <2>1
    <3> QED
      BY <1>4, <3>1
  <2> DEFINE line == LastLine(f)
  <2>3. /\ line \in Seq(Word) /\ w # Space
        /\ EntryOf(Append(line, w)) # <<>>
        /\ EntryOf(Append(line, w))[1] = <<h>> /\ EntryOf(Append(line, w))[3] = <<k>>
    BY <1>2, <1>4, <2>2
  <2> HIDE DEF line
  <2>4. k = w /\ Leads(h, line)
    BY <2>3, KeyIsTheLastWord
  <2> QED
    BY <2>4 DEF line
<1> QED
  BY <1>3, <1>4

Headless(line) ==
  ~\E i \in DOMAIN line : line[i] \in Hosts /\ \A j \in 1 .. i - 1 : line[j] = Space

Wrote(line, h, n) ==
  \E p \in DOMAIN line :
    /\ line[p] = h
    /\ n > 1 => \E q \in DOMAIN line :
                  p < q /\ line[q] = Space /\ (n = 4 => \E r \in DOMAIN line : q < r)

-----------------------------------------------------------------------------
(* What stands of an entry while words are added.                          *)
LEMMA StaysHeadless ==
  ASSUME NEW line \in Seq(Word), NEW w \in Word, w \notin Hosts, Headless(line)
  PROVE  Headless(Append(line, w))
<1> DEFINE more == Append(line, w)
           n == Len(line)
<1>1. /\ n \in Nat /\ more \in Seq(Word) /\ Len(more) = n + 1 /\ more[n + 1] = w
      /\ \A j \in 1 .. n : more[j] = line[j]
  BY AppendProperties
<1> HIDE DEF more
<1> SUFFICES ASSUME NEW i \in DOMAIN more, more[i] \in Hosts, \A j \in 1 .. i - 1 : more[j] = Space
             PROVE  FALSE
  BY DEF Headless, more
<1>2. i \in 1 .. n
  BY <1>1
<1>3. line[i] \in Hosts /\ \A j \in 1 .. i - 1 : line[j] = Space
  BY <1>1, <1>2
<1> QED
  BY <1>2, <1>3 DEF Headless

(* A new line names no host.                                               *)
LEMMA EmptyIsHeadless == Headless(<<>>)
BY DEF Headless

(* A word more leaves what is written, and a word of its own is one more.  *)
LEMMA StaysWritten ==
  ASSUME NEW line \in Seq(Word), NEW w \in Word, NEW h, NEW n \in 1 .. 4, Wrote(line, h, n)
  PROVE  /\ Wrote(Append(line, w), h, n)
         /\ n = 1 /\ w = Space => Wrote(Append(line, w), h, 2)
         /\ n = 2 => Wrote(Append(line, w), h, 3)
         /\ n = 3 => Wrote(Append(line, w), h, 4)
<1> DEFINE more == Append(line, w)
           l == Len(line)
<1>1. /\ l \in Nat /\ more \in Seq(Word) /\ Len(more) = l + 1 /\ more[l + 1] = w
      /\ \A j \in 1 .. l : more[j] = line[j]
      /\ DOMAIN line = 1 .. l /\ DOMAIN more = 1 .. l + 1
  BY AppendProperties
<1> HIDE DEF more, l
<1>2. \A j \in 1 .. l : j \in 1 .. l + 1 /\ j < l + 1
  BY <1>1
<1>3. l + 1 \in 1 .. l + 1
  BY <1>1
<1>4. PICK p \in 1 .. l :
        /\ line[p] = h
        /\ n > 1 => \E q \in 1 .. l : p < q /\ line[q] = Space /\ (n = 4 => \E r \in 1 .. l : q < r)
  BY <1>1 DEF Wrote
<1>5. p \in DOMAIN more /\ more[p] = h /\ p < l + 1
  <2>1. p \in 1 .. l + 1 /\ p < l + 1 /\ more[p] = line[p]
    BY <1>1, <1>2
  <2> QED
    BY <1>1, <1>4, <2>1
<1>6. CASE n = 1
  <2>1. Wrote(more, h, 1)
    BY <1>5 DEF Wrote
  <2>2. w = Space => Wrote(more, h, 2)
    BY <1>1, <1>3, <1>5 DEF Wrote
  <2> QED
    BY <1>6, <2>1, <2>2 DEF more
<1>7. CASE n > 1
  <2>1. PICK q \in 1 .. l : p < q /\ line[q] = Space /\ (n = 4 => \E r \in 1 .. l : q < r)
    BY <1>4, <1>7
  <2>2. q \in DOMAIN more /\ more[q] = Space /\ p < q /\ l + 1 \in DOMAIN more /\ q < l + 1
    BY <1>1, <1>2, <1>3, <2>1
  <2>3. Wrote(more, h, 2) /\ Wrote(more, h, 3) /\ Wrote(more, h, 4)
    BY <1>5, <2>2 DEF Wrote
  <2> QED
    BY <1>7, <2>3 DEF more
<1> QED
  BY <1>6, <1>7

(* With its first word an entry names its host.                            *)
LEMMA HostIsWritten ==
  ASSUME NEW line \in Seq(Word), NEW h \in Word
  PROVE  Wrote(Append(line, h), h, 1)
<1>1. Len(line) + 1 \in DOMAIN Append(line, h) /\ Append(line, h)[Len(line) + 1] = h
  BY AppendProperties
<1> QED
  BY <1>1 DEF Wrote

(* The key written after all this is the key of its host, if it is read as *)
(* the key of any.                                                         *)
LEMMA KeyIsOfItsHost ==
  ASSUME NEW line \in Seq(Word), NEW h \in Hosts, NEW g \in Hosts,
         Headless(line) \/ Wrote(line, g, 4),
         Leads(h, line)
  PROVE  h = g
<1> DEFINE l == Len(line)
<1>0. DOMAIN line = 1 .. l /\ l \in Nat
  OBVIOUS
<1> HIDE DEF l
<1>3. PICK i \in 1 .. l : /\ line[i] = h
                         /\ \A j \in 1 .. l :
                              /\ j < i => line[j] = Space
                              /\ line[j] = Space => j < i \/ j = i + 1 \/ j = l
  BY DEF Leads, l
<1>1. CASE Headless(line)
  <2>1. \A j \in 1 .. i - 1 : j \in 1 .. l /\ j < i
    BY <1>0
  <2>2. \A j \in 1 .. i - 1 : line[j] = Space
    BY <1>3, <2>1
  <2> QED
    BY <1>0, <1>1, <1>3, <2>2 DEF Headless
<1>2. CASE Wrote(line, g, 4)
  <2>1. PICK p \in 1 .. l :
          /\ line[p] = g
          /\ \E q \in 1 .. l : p < q /\ line[q] = Space /\ \E r \in 1 .. l : q < r
    BY <1>0, <1>2 DEF Wrote
  <2>2. PICK q \in 1 .. l, r \in 1 .. l : p < q /\ line[q] = Space /\ q < r
    BY <2>1
  <2>3. line[p] # Space
    BY <2>1, NamesAssumption
  <2>4. ~(p < i)
    BY <1>3, <2>3
  <2>5. q = i + 1
    BY <1>0, <1>3, <2>2, <2>4
  <2>6. p = i
    BY <1>0, <2>2, <2>4, <2>5
  <2> QED
    BY <1>3, <2>1, <2>6
<1> QED
  BY <1>1, <1>2

Fits(held, h, pin, keys) ==
  /\ pin # None => <<h>> \in DOMAIN held
  /\ \A k \in Keys : <<h>> \in DOMAIN held /\ held[<<h>>][2] = <<k>> =>
       k \in keys /\ (pin # None => k = pin)

-----------------------------------------------------------------------------
(* A last line grows with each word, until a newline.                      *)
LEMMA LastLineGrows ==
  ASSUME NEW f \in Seq(Word), NEW w \in Word
  PROVE  /\ LastLine(f) \in Seq(Word)
         /\ LastLine(Append(f, w)) = IF w = Newline THEN <<>> ELSE Append(LastLine(f), w)
<1>1. PICK m \in LineStarts(f) : \A i \in LineStarts(f) : i <= m
  BY LastStart
<1>2. LastLine(f) = LineAt(f, m) /\ LineAt(f, m) \in Seq(Word)
  BY <1>1, LastLineIs, StartsType, LineFacts
<1>3. CASE w = Newline
  BY <1>2, <1>3, NewlineAppended
<1>4. CASE w # Newline
  BY <1>1, <1>2, <1>4, WordAppended
<1> QED
  BY <1>3, <1>4

(* It is empty after one.                                                  *)
LEMMA LineBegins ==
  ASSUME NEW f \in Seq(Word), f = <<>> \/ f[Len(f)] = Newline
  PROVE  LastLine(f) = <<>>
<1>1. CASE f = <<>>
  BY <1>1, EmptyFile
<1>2. CASE f # <<>>
  <2> DEFINE n == Len(f) + 1
  <2>1. n \in Nat /\ n - 1 = Len(f) /\ n \in 1 .. Len(f) + 1 /\ f[n - 1] = Newline
    BY <1>2
  <2>2. n \in LineStarts(f) /\ \A i \in LineStarts(f) : i <= n
    BY <2>1, StartsType DEF LineStarts
  <2>3. LastLine(f) = SubSeq(f, n, Len(f))
    BY <2>2, LastLineIs
  <2> QED
    BY <2>1, <2>3, SubSeqEmpty
<1> QED
  BY <1>1, <1>2

(* A space, a newline, a host or the algorithm gives no host a key.        *)
LEMMA BlankFits ==
  ASSUME NEW f \in Seq(Word), NEW w \in {Space, Newline}, NEW h, NEW p, NEW K, Fits(Load(f), h, p, K)
  PROVE  Fits(Load(Append(f, w)), h, p, K)
<1>1. /\ <<h>> \in DOMAIN Load(Append(f, w)) <=> <<h>> \in DOMAIN Load(f)
      /\ <<h>> \in DOMAIN Load(f) => Load(Append(f, w))[<<h>>] = Load(f)[<<h>>]
  BY BlankKeepsStore
<1> QED
  BY <1>1 DEF Fits

(* Nor does a name, unless it is the name of a key.                        *)
LEMMA NameFits ==
  ASSUME NEW f \in Seq(Word), NEW w \in Word, w \notin {Space, Newline}, w \notin Keys,
         NEW h, NEW p, NEW K, Fits(Load(f), h, p, K)
  PROVE  Fits(Load(Append(f, w)), h, p, K)
<1>1. <<h>> \in DOMAIN Load(f) => <<h>> \in DOMAIN Load(Append(f, w))
  BY WordInStore
<1>2. ASSUME NEW k \in Keys, <<h>> \in DOMAIN Load(Append(f, w)), Load(Append(f, w))[<<h>>][2] = <<k>>
      PROVE  <<h>> \in DOMAIN Load(f) /\ Load(f)[<<h>>][2] = <<k>>
  <2>1. k # w
    OBVIOUS
  <2> QED
    BY <1>2, <2>1, KeyInStore
<1> QED
  BY <1>1, <1>2 DEF Fits

(* One word of a line.                                                     *)
LEMMA OnePiece ==
  ASSUME NEW line \in Seq(Word), NEW i \in 1 .. Len(line)
  PROVE  SubSeq(line, i, i) = <<line[i]>>
<1>1. Len(SubSeq(line, i, i)) = 1 /\ SubSeq(line, i, i)[1] = line[i] /\ SubSeq(line, i, i) \in Seq(Word)
  OBVIOUS
<1>2. <<line[i]>> \in Seq(Word) /\ Len(<<line[i]>>) = 1 /\ <<line[i]>>[1] = line[i]
  OBVIOUS
<1>3. \A j \in 1 .. 1 : j = 1
  OBVIOUS
<1> QED
  BY <1>1, <1>2, <1>3, SeqEqual

(* An entry written in one piece is read as it was written.                *)
LEMMA WholeEntry ==
  ASSUME NEW g \in Hosts, NEW w \in Keys
  PROVE  LET line == Append(<<g, Space, Algo, Space>>, w)
         IN  EntryOf(line) # <<>> /\ EntryOf(line)[1] = <<g>> /\ EntryOf(line)[3] = <<w>>
<1> DEFINE line == Append(<<g, Space, Algo, Space>>, w)
<1>1. /\ Len(line) = 5 /\ line[1] = g /\ line[2] = Space /\ line[3] = Algo /\ line[4] = Space /\ line[5] = w
      /\ line \in Seq(Word)
  BY DEF Word
<1>2. g # Space /\ w # Space /\ Algo # Space
  BY NamesAssumption DEF Algo, Space
<1> HIDE DEF line
<1>3. Parts(line, 1, 2, 4, 5)
  <2>1. ASSUME NEW i \in 1 .. 5
        PROVE  /\ ~(i < 1) /\ ~(1 < i /\ i < 2) /\ ~(5 < i)
               /\ 2 < i /\ i < 4 => i = 3
    OBVIOUS
  <2>2. 1 .. Len(line) = 1 .. 5 /\ 1 \in 1 .. 5 /\ 5 \in 1 .. 5 /\ 2 \in Int /\ 4 \in Int
    BY <1>1
  <2>3. 1 < 2 /\ 2 < 4 /\ 4 < 5
    OBVIOUS
  <2> QED
    BY <1>1, <1>2, <2>1, <2>2, <2>3 DEF Parts
<1>4. EntryOf(line) = <<SubSeq(line, 1, 2 - 1), SubSeq(line, 2 + 1, 4 - 1), SubSeq(line, 4 + 1, 5)>>
  BY <1>1, <1>3, EntryIs
<1>5. SubSeq(line, 1, 2 - 1) = <<g>> /\ SubSeq(line, 4 + 1, 5) = <<w>>
  <2>1. 1 \in 1 .. Len(line) /\ 5 \in 1 .. Len(line) /\ 2 - 1 = 1 /\ 4 + 1 = 5
    BY <1>1
  <2> QED
    BY <1>1, <2>1, OnePiece
<1>6. EntryOf(line) # <<>> /\ EntryOf(line)[1] = <<g>> /\ EntryOf(line)[3] = <<w>>
  BY <1>4, <1>5
<1> QED
  BY <1>6 DEF line

(* A key is one for the host it was written for, if for any; and for that  *)
(* one if nothing came between.                                            *)
LEMMA KeyFits ==
  ASSUME NEW f \in Seq(Word), NEW g \in Hosts, NEW w \in Keys, NEW whole \in BOOLEAN,
         Headless(LastLine(f)) \/ Wrote(LastLine(f), g, 4),
         whole => LastLine(f) = <<g, Space, Algo, Space>>,
         NEW h \in Hosts, NEW p, NEW K, Fits(Load(f), h, p, K), h = g => w \in K
  PROVE  Fits(Load(Append(f, w)), h, IF h # g THEN p ELSE IF whole THEN w ELSE None, K)
<1> DEFINE new == Load(Append(f, w))
           pin == IF h # g THEN p ELSE IF whole THEN w ELSE None
<1>0. w \in Word /\ w \notin {Space, Newline}
  BY NamesAssumption DEF Word
<1>1. <<h>> \in DOMAIN Load(f) => <<h>> \in DOMAIN new
  BY <1>0, WordInStore
<1>2. ASSUME h = g, whole PROVE <<h>> \in DOMAIN new /\ new[<<h>>][2] = <<w>>
  <2> DEFINE entry == EntryOf(LastLine(Append(f, w)))
  <2>1. entry = EntryOf(Append(<<g, Space, Algo, Space>>, w))
    BY <1>0, <1>2, LastLineGrows
  <2>2. entry # <<>> /\ entry[1] = <<h>> /\ entry[3] = <<w>>
    BY <1>2, <2>1, WholeEntry
  <2>3. \E x, y, z : entry = <<x, y, z>>
    BY <2>2 DEF EntryOf
  <2>4. <<h>> \in DOMAIN new /\ new[<<h>>] = Tail(entry)
    BY <1>0, <2>2, WordInStore
  <2> HIDE DEF entry
  <2>5. Tail(entry)[2] = entry[3]
    BY <2>3
  <2> QED
    BY <2>2, <2>4, <2>5
<1>3. pin # None => <<h>> \in DOMAIN new
  BY <1>1, <1>2 DEF Fits
<1>4. ASSUME NEW k \in Keys, <<h>> \in DOMAIN new, new[<<h>>][2] = <<k>>
      PROVE  k \in K /\ (pin # None => k = pin)
  <2>1. \/ <<h>> \in DOMAIN Load(f) /\ Load(f)[<<h>>][2] = <<k>>
        \/ k = w /\ Leads(h, LastLine(f))
    BY <1>0, <1>4, KeyInStore
  <2>2. CASE k = w /\ Leads(h, LastLine(f))
    <3>1. h = g
      BY <1>0, <2>2, KeyIsOfItsHost, LastLineGrows
    <3> QED
      BY <2>2, <3>1
  <2>3. CASE <<h>> \in DOMAIN Load(f) /\ Load(f)[<<h>>][2] = <<k>>
    <3>1. k \in K /\ (p # None => k = p)
      BY <2>3 DEF Fits
    <3>2. h = g /\ whole => k = w
      BY <1>2, <1>4, OneWord
    <3> QED
      BY <3>1, <3>2
  <2> QED
    BY <2>1, <2>2, <2>3
<1> HIDE DEF new, pin
<1>5. Fits(new, h, pin, K)
  BY <1>3, <1>4 DEF Fits
<1> QED
  BY <1>5 DEF new, pin

(* What an attempt knows of its host: nothing before it loads the store,   *)
(* then what the store said, then a key somebody trusts.                   *)
Knows(a, taken) ==
  /\ a.phase \in {"idle", "loaded"} => a.told = None
  /\ a.phase # "idle" => a.host \in Hosts
  /\ a.phase = "loaded" => Fits(a.entries, a.host, a.pin, taken[a.host])
  /\ a.phase \in {"writing"} \union Trusting =>
       /\ a.offered \in Keys /\ a.offered \in taken[a.host]
       /\ a.pin # None => a.offered = a.pin

(* What stands in the file of the entry an attempt writes.                 *)
Stands(a, words) ==
  /\ a.phase \in {"loaded", "writing"} /\ a.words = 0 => a.whole = TRUE /\ a.cut = FALSE
  /\ a.phase = "writing" /\ a.words > 0 =>
       /\ words # <<>>
       /\ a.whole \in BOOLEAN /\ a.cut \in BOOLEAN
       /\ a.words < 5 =>
            /\ a.cut => Headless(LastLine(words))
            /\ ~a.cut => Wrote(LastLine(words), a.host, a.words)
            /\ a.whole => LastLine(words) = SubSeq(EntryWords(a.host, a.offered), 1, a.words)

(* Entries that are read again as they are written: the names of hosts and *)
(* algorithms hold no space, what is written for a key ends in none.       *)
Host(t) == t \in Seq(Word) /\ t # <<>> /\ \A i \in 1 .. Len(t) : t[i] \notin {Space, Newline}
Algorithm(x) == x \in Seq(Word) /\ \A i \in 1 .. Len(x) : x[i] \notin {Space, Newline}
Rest(y) == y \in Seq(Word) /\ y # <<>> /\ y[Len(y)] # Space /\ \A i \in 1 .. Len(y) : y[i] # Newline

Readable(held) ==
  /\ IsFiniteSet(DOMAIN held)
  /\ \A t \in DOMAIN held : Host(t) /\ \E x, y : held[t] = <<x, y>> /\ Algorithm(x) /\ Rest(y)

Holds(f, taken) ==
  f.phase # "idle" =>
    /\ Readable(f.kept) /\ f.pins \in [Hosts -> Keys \union {None}]
    /\ \A h \in Hosts : Fits(f.kept, h, f.pins[h], taken[h])

Sound ==
  /\ file \in Seq(Word) /\ pins \in [Hosts -> Keys \union {None}] /\ accepted \in [Hosts -> SUBSET Keys]
  /\ \A s \in Attempts : Knows(attempt[s], accepted) /\ Stands(attempt[s], file)
  /\ \A h \in Hosts : Fits(Load(file), h, pins[h], accepted[h])
  /\ Holds(forget, accepted)

KeyInv == smeared \in BOOLEAN /\ (~smeared => Sound)

-----------------------------------------------------------------------------
(* One attempt changes, to one that knows and stands as it should, and     *)
(* nothing else does.                                                      *)
LEMMA AttemptChanges ==
  ASSUME TrustInv, Sound, NEW s \in Attempts, NEW a, Set(s, a), Knows(a, accepted), Stands(a, file),
         UNCHANGED <<file, forget, accepted, pins>>
  PROVE  Sound'
<1>1. \A r \in Attempts : attempt'[r] = IF r = s THEN a ELSE attempt[r]
  BY DEF Set, TrustInv
<1>2. file' = file /\ forget' = forget /\ accepted' = accepted /\ pins' = pins
  OBVIOUS
<1>3. \A r \in Attempts : Knows(attempt'[r], accepted) /\ Stands(attempt'[r], file)
  BY <1>1 DEF Sound
<1> QED
  BY <1>2, <1>3 DEF Sound

(* An attempt that has not begun, or is over, knows and writes nothing.    *)
LEMMA IdleHolds ==
  ASSUME NEW taken, NEW words
  PROVE  Knows(Idle, taken) /\ Stands(Idle, words)
BY DEF Knows, Stands, Idle, Trusting

(* More trust takes nothing back.                                          *)
LEMMA MoreFits ==
  ASSUME NEW held, NEW h, NEW p, NEW K, NEW L, Fits(held, h, p, K), K \subseteq L
  PROVE  Fits(held, h, p, L)
BY DEF Fits

(* connect: an attempt knows what the store says of its host.              *)
LEMMA ConnectPins ==
  ASSUME TrustInv, Sound, NEW s \in Attempts, Connect(s)
  PROVE  Sound'
<1>1. PICK h \in Hosts :
        Set(s, [Idle EXCEPT !.phase = "loaded", !.host = h,
                            !.entries = Load(file), !.pin = pins[h]])
  BY DEF Connect
<1> DEFINE a == [Idle EXCEPT !.phase = "loaded", !.host = h,
                             !.entries = Load(file), !.pin = pins[h]]
<1>2. /\ a.phase = "loaded" /\ a.host = h /\ a.entries = Load(file) /\ a.pin = pins[h]
      /\ a.told = None /\ a.words = 0 /\ a.whole = TRUE /\ a.cut = FALSE
  BY DEF Idle
<1>3. Set(s, a)
  BY <1>1
<1> HIDE DEF a
<1>4. Knows(a, accepted)
  BY <1>2 DEF Knows, Sound, Trusting
<1>5. Stands(a, file)
  BY <1>2 DEF Stands
<1>6. UNCHANGED <<file, forget, accepted, pins>>
  BY DEF Connect, ghosts
<1> QED
  BY <1>3, <1>4, <1>5, <1>6, AttemptChanges

(* A key that matches is trusted already, a new one has no pin.            *)
LEMMA CheckPins ==
  ASSUME TrustInv, Sound, NEW s \in Attempts, CheckServerKey(s)
  PROVE  Sound'
<1>1. PICK key \in Keys, policy \in Policies, yes \in BOOLEAN :
        LET verdict == Check(attempt[s].entries, attempt[s].host, key)
            a == [attempt[s] EXCEPT !.offered = key, !.told = verdict, !.entries = Empty]
        IN  CASE verdict = "matches" ->
                   Set(s, [a EXCEPT !.phase = "trusted"]) /\ UNCHANGED ghosts
              [] verdict = "new" /\ Decision(policy, yes) -> Decide(s, a)
              [] OTHER -> Set(s, Idle) /\ UNCHANGED ghosts
  BY DEF CheckServerKey
<1> DEFINE was == attempt[s]
           verdict == Check(was.entries, was.host, key)
           a == [was EXCEPT !.offered = key, !.told = verdict, !.entries = Empty]
           at(phase) == [a EXCEPT !.phase = phase]
<1>2. /\ Cautious(was) /\ was.phase = "loaded" /\ was.words = 0
      /\ Knows(was, accepted) /\ Stands(was, file)
  BY DEF CheckServerKey, Phase, TrustInv, Cautious, Sound
<1>3. /\ was.host \in Hosts /\ Fits(was.entries, was.host, was.pin, accepted[was.host])
      /\ was.whole = TRUE /\ was.cut = FALSE
  BY <1>2 DEF Knows, Stands
<1>4. UNCHANGED <<file, forget>>
  BY DEF CheckServerKey
<1>5. ASSUME NEW phase
      PROVE  /\ at(phase).phase = phase /\ at(phase).host = was.host /\ at(phase).pin = was.pin
             /\ at(phase).offered = key /\ at(phase).told = verdict /\ at(phase).words = 0
             /\ at(phase).whole = TRUE /\ at(phase).cut = FALSE
  <2> HIDE DEF verdict, was
  <2>1. was = [x \in Fields |-> was[x]]
    BY <1>2 DEF Cautious
  <2> QED
    BY <1>2, <1>3, <2>1 DEF Fields
<1>6. \/ verdict = "matches" /\ Set(s, at("trusted")) /\ UNCHANGED ghosts
      \/ verdict = "new" /\ Decide(s, a)
      \/ Set(s, Idle) /\ UNCHANGED ghosts
  BY <1>1
<1>7. CASE verdict = "matches" /\ Set(s, at("trusted")) /\ UNCHANGED ghosts
  <2> DEFINE b == at("trusted")
  <2>1. <<was.host>> \in DOMAIN was.entries /\ was.entries[<<was.host>>][2] = <<key>>
    BY <1>7 DEF Check
  <2>2. key \in accepted[was.host] /\ (was.pin # None => key = was.pin)
    BY <1>3, <2>1 DEF Fits
  <2>3. /\ b.phase = "trusted" /\ b.host = was.host /\ b.pin = was.pin /\ b.offered = key
        /\ Set(s, b) /\ UNCHANGED <<accepted, pins>>
    BY <1>5, <1>7 DEF ghosts
  <2> HIDE DEF b, was, verdict
  <2>4. Knows(b, accepted) /\ Stands(b, file)
    BY <1>3, <2>2, <2>3 DEF Knows, Stands, Trusting
  <2> QED
    BY <1>4, <2>3, <2>4, AttemptChanges
<1>8. CASE verdict = "new" /\ Decide(s, a)
  <2> DEFINE b == at("writing")
             more == [accepted EXCEPT ![was.host] = @ \union {key}]
  <2>1. <<was.host>> \notin DOMAIN was.entries
    BY <1>8 DEF Check
  <2>2. was.pin = None
    BY <1>3, <2>1 DEF Fits
  <2>3. a.host = was.host /\ a.offered = key
    <3>1. was = [x \in Fields |-> was[x]]
      BY <1>2 DEF Cautious
    <3> HIDE DEF verdict, was
    <3> QED
      BY <3>1 DEF Fields
  <2>4. /\ b.phase = "writing" /\ b.host = was.host /\ b.pin = was.pin /\ b.offered = key
        /\ b.words = 0 /\ b.whole = TRUE /\ b.cut = FALSE
    BY <1>5
  <2>5. Set(s, b) /\ accepted' = more /\ pins' = pins
    BY <1>8, <2>3 DEF Decide
  <2> HIDE DEF was, verdict, a
  <2>6. /\ accepted \in [Hosts -> SUBSET Keys] /\ more \in [Hosts -> SUBSET Keys]
        /\ \A h \in Hosts : accepted[h] \subseteq more[h] /\ key \in more[was.host]
    BY <1>3 DEF Sound
  <2> HIDE DEF b, more
  <2>7. Knows(b, more) /\ Stands(b, file)
    BY <1>3, <2>2, <2>4, <2>6 DEF Knows, Stands, Trusting
  <2>8. ASSUME NEW r \in Attempts PROVE Knows(attempt[r], more)
    BY <2>6, MoreFits DEF Knows, Sound, Trusting
  <2>9. \A r \in Attempts : attempt'[r] = IF r = s THEN b ELSE attempt[r]
    BY <2>5 DEF Set, TrustInv
  <2>10. \A r \in Attempts : Knows(attempt'[r], more) /\ Stands(attempt'[r], file)
    BY <2>7, <2>8, <2>9 DEF Sound
  <2>11. \A h \in Hosts : Fits(Load(file), h, pins[h], more[h])
    BY <2>6, MoreFits DEF Sound
  <2>12. Holds(forget, more)
    BY <2>6, MoreFits DEF Sound, Holds
  <2> QED
    BY <1>4, <2>5, <2>6, <2>10, <2>11, <2>12 DEF Sound
<1>9. CASE Set(s, Idle) /\ UNCHANGED ghosts
  BY <1>4, <1>9, IdleHolds, AttemptChanges DEF ghosts
<1> QED
  BY <1>6, <1>7, <1>8, <1>9

(* Logging in changes nothing of the key.                                  *)
LEMMA LogInPins ==
  ASSUME TrustInv, Sound, NEW s \in Attempts, LogIn(s)
  PROVE  Sound'
<1> DEFINE up(answers) == [attempt[s] EXCEPT !.phase = "up",
                                             !.let_in = "accepted" \in ToSet(answers)]
<1>1. PICK answers : Set(s, up(answers)) \/ Set(s, Idle)
  BY DEF LogIn
<1>2. Knows(up(answers), accepted) /\ Stands(up(answers), file)
  <2>1. Cautious(attempt[s]) /\ attempt[s].phase = "trusted" /\ Knows(attempt[s], accepted)
    BY DEF LogIn, Phase, TrustInv, Sound
  <2>2. /\ up(answers).phase = "up" /\ up(answers).host = attempt[s].host
        /\ up(answers).offered = attempt[s].offered /\ up(answers).pin = attempt[s].pin
    BY <2>1 DEF Cautious, Fields
  <2> HIDE DEF up
  <2> QED
    BY <2>1, <2>2 DEF Knows, Stands, Trusting
<1>3. UNCHANGED <<file, forget, accepted, pins>>
  BY DEF LogIn, ghosts
<1> HIDE DEF up
<1> QED
  BY <1>1, <1>2, <1>3, IdleHolds, AttemptChanges

(* A closed session and a killed attempt: nothing is known.                *)
LEMMA StopPins ==
  ASSUME TrustInv, Sound, NEW s \in Attempts, Close(s) \/ Kill(s)
  PROVE  Sound'
<1>1. Set(s, Idle) /\ UNCHANGED <<file, forget, accepted, pins>>
  BY DEF Close, Kill, ghosts
<1> QED
  BY <1>1, IdleHolds, AttemptChanges

-----------------------------------------------------------------------------
(* The six words of an entry.                                              *)
LEMMA EntryWordsAre ==
  ASSUME NEW h \in Hosts, NEW k \in Keys
  PROVE  /\ EntryWords(h, k) \in Seq(Word) /\ Len(EntryWords(h, k)) = 6
         /\ EntryWords(h, k)[1] = h /\ EntryWords(h, k)[2] = Space /\ EntryWords(h, k)[3] = Algo
         /\ EntryWords(h, k)[4] = Space /\ EntryWords(h, k)[5] = k /\ EntryWords(h, k)[6] = Newline
BY DEF EntryWords, Word

(* A file that was written to is not empty.                                *)
LEMMA AppendedIsNotEmpty ==
  ASSUME NEW f \in Seq(Word), NEW w \in Word
  PROVE  Append(f, w) # <<>>
<1>1. Len(Append(f, w)) = Len(f) + 1 /\ Len(f) \in Nat /\ Len(<<>>) = 0
  BY AppendProperties
<1> QED
  BY <1>1

(* Names of hosts and keys, and what stands between them, are not mistaken *)
(* for each other.                                                         *)
LEMMA NamesDiffer ==
  ASSUME NEW h \in Hosts, NEW k \in Keys
  PROVE  /\ h \notin Keys /\ h \notin {Space, Newline} /\ k \notin Hosts /\ k \notin {Space, Newline, None}
         /\ Algo \notin Keys /\ Algo \notin Hosts /\ Algo \notin {Space, Newline}
         /\ Space \notin Hosts /\ Newline \notin Hosts /\ Space # Newline /\ Space \notin Keys /\ Newline \notin Keys
BY NamesAssumption DEF Algo, Space, Newline, None

(* What stands of an entry is one word longer.                             *)
LEMMA OneWordMore ==
  ASSUME NEW h \in Hosts, NEW k \in Keys, NEW n \in 1 .. 5
  PROVE  /\ SubSeq(EntryWords(h, k), 1, n) = Append(SubSeq(EntryWords(h, k), 1, n - 1), EntryWords(h, k)[n])
         /\ SubSeq(EntryWords(h, k), 1, 0) = <<>>
         /\ SubSeq(EntryWords(h, k), 1, 4) = <<h, Space, Algo, Space>>
<1> DEFINE e == EntryWords(h, k)
<1>1. e \in Seq(Word) /\ Len(e) = 6 /\ e[1] = h /\ e[2] = Space /\ e[3] = Algo /\ e[4] = Space
  BY EntryWordsAre
<1> HIDE DEF e
<1>2. SubSeq(e, 1, n) = Append(SubSeq(e, 1, n - 1), e[n])
  <2>1. 1 \in 1 .. Len(e) /\ n \in 1 .. Len(e)
    BY <1>1
  <2> QED
    BY <1>1, <2>1, SubSeqRecursiveSecond
<1>3. SubSeq(e, 1, 0) = <<>>
  BY <1>1, SubSeqEmpty
<1>4. SubSeq(e, 1, 4) = <<h, Space, Algo, Space>>
  <2>1. /\ SubSeq(e, 1, 4) \in Seq(Word) /\ Len(SubSeq(e, 1, 4)) = 4
        /\ \A i \in 1 .. 4 : SubSeq(e, 1, 4)[i] = e[i]
    <3>1. 1 \in Int /\ 4 \in Int /\ \A i \in 1 .. 4 : e[i] \in Word
      BY <1>1 
    <3>2. /\ SubSeq(e, 1, 4) \in Seq(Word)
          /\ Len(SubSeq(e, 1, 4)) = IF 1 <= 4 THEN 4 - 1 + 1 ELSE 0
          /\ \A i \in 1 .. 4 - 1 + 1 : SubSeq(e, 1, 4)[i] = e[1 + i - 1]
      BY <3>1, SubSeqProperties
    <3> QED
      BY <3>2
  <2>2. /\ <<h, Space, Algo, Space>> \in Seq(Word) /\ Len(<<h, Space, Algo, Space>>) = 4
        /\ \A i \in 1 .. 4 : <<h, Space, Algo, Space>>[i] = e[i]
    <3>1. \A i \in 1 .. 4 : i = 1 \/ i = 2 \/ i = 3 \/ i = 4
      OBVIOUS
    <3> QED
      BY <1>1, <3>1 DEF Word
  <2> QED
    BY <2>1, <2>2, SeqEqual
<1> QED
  BY <1>2, <1>3, <1>4 DEF e

(* The word an attempt writes, and what it makes of the store.             *)
LEMMA WriterStands ==
  ASSUME TrustInv, Sound, NEW s \in Attempts, WriteWord(s)
  PROVE  LET a == attempt[s]
             n == a.words + 1
             word == EntryWords(a.host, a.offered)[n]
             whole == a.whole /\ (n = 1 => AtLineStart)
             b == [a EXCEPT !.words = n, !.whole = whole,
                            !.phase = IF n = LastWord THEN "trusted" ELSE "writing"]
         IN  Knows(b, accepted) /\ Stands(b, Append(file, word))
<1> DEFINE a == attempt[s]
           n == a.words + 1
           word == EntryWords(a.host, a.offered)[n]
           whole == a.whole /\ (n = 1 => AtLineStart)
           phase == IF n = LastWord THEN "trusted" ELSE "writing"
           b == [a EXCEPT !.words = n, !.whole = whole, !.phase = phase]
           old == LastLine(file)
           new == LastLine(Append(file, word))
<1>1. /\ Cautious(a) /\ a.phase = "writing" /\ a.words \in 0 .. 5
      /\ Knows(a, accepted) /\ Stands(a, file) /\ file \in Seq(Word)
  BY DEF WriteWord, Phase, TrustInv, Cautious, Sound, LastWord
<1>2. /\ a.host \in Hosts /\ a.offered \in Keys /\ a.offered \in accepted[a.host]
      /\ a.pin # None => a.offered = a.pin
  BY <1>1 DEF Knows
<1>3. n \in 1 .. 6 /\ n - 1 = a.words /\ (n = LastWord <=> n = 6)
  BY <1>1 DEF LastWord
<1>4. /\ b.phase = phase /\ b.words = n /\ b.whole = whole /\ b.cut = a.cut
      /\ b.host = a.host /\ b.offered = a.offered /\ b.pin = a.pin
  <2>1. a = [x \in Fields |-> a[x]]
    BY <1>1 DEF Cautious
  <2> HIDE DEF a, n, whole, phase
  <2> QED
    BY <2>1 DEF Fields
<1> HIDE DEF b
<1>5. Knows(b, accepted)
  <2>1. phase \in {"writing", "trusted"}
    OBVIOUS
  <2> HIDE DEF a, n, whole, phase
  <2> QED
    BY <1>2, <1>4, <2>1 DEF Knows, Trusting
<1>6. a.whole \in BOOLEAN /\ a.cut \in BOOLEAN /\ (n = 1 => ~a.cut)
  <2>1. CASE a.words = 0
    BY <1>1, <2>1 DEF Stands
  <2>2. CASE a.words # 0
    <3>1. a.words > 0 /\ n # 1
      BY <1>1, <2>2
    <3> QED
      BY <1>1, <3>1 DEF Stands
  <2> QED
    BY <2>1, <2>2
<1>7. word \in Word
  BY <1>2, <1>3, EntryWordsAre
<1>8. old \in Seq(Word) /\ new = IF word = Newline THEN <<>> ELSE Append(old, word)
  BY <1>1, <1>7, LastLineGrows
<1>9. ASSUME n < 5
      PROVE  /\ word # Newline /\ (n # 1 => word \notin Hosts)
             /\ n = 1 => word = a.host
             /\ n = 2 => word = Space
  BY <1>2, <1>3, <1>9, EntryWordsAre, NamesDiffer, SMTT(30)
<1>10. ASSUME n < 5
       PROVE  /\ b.cut => Headless(new)
              /\ ~b.cut => Wrote(new, b.host, b.words)
              /\ b.whole => new = SubSeq(EntryWords(b.host, b.offered), 1, b.words)
  <2>0. new = Append(old, word) /\ n \in 1 .. 4
    BY <1>3, <1>8, <1>9, <1>10
  <2>1. n # 1 => /\ a.cut => Headless(old)
                 /\ ~a.cut => Wrote(old, a.host, n - 1)
                 /\ a.whole => old = SubSeq(EntryWords(a.host, a.offered), 1, n - 1)
    BY <1>1, <1>3, <1>10 DEF Stands
  <2>2. ASSUME a.cut PROVE Headless(new)
    <3>1. n # 1 /\ word \notin Hosts
      BY <1>6, <1>9, <1>10, <2>2
    <3> QED
      BY <1>7, <1>8, <2>0, <2>1, <2>2, <3>1, StaysHeadless
  <2>3. ASSUME ~a.cut PROVE Wrote(new, a.host, n)
    <3>1. CASE n = 1
      BY <1>2, <1>7, <1>8, <1>9, <1>10, <2>0, <3>1, HostIsWritten
    <3>2. CASE n # 1
      <4> HIDE DEF a, n, word, old, new
      <4>1. n - 1 \in 1 .. 4 /\ Wrote(old, a.host, n - 1)
        BY <2>0, <2>1, <2>3, <3>2
      <4>2. n - 1 = 1 \/ n - 1 = 2 \/ n - 1 = 3
        BY <2>0, <3>2
      <4>3. n - 1 = 1 => n = 2 /\ word = Space
        BY <1>9, <1>10, <2>0
      <4>4. /\ n - 1 = 1 /\ word = Space => Wrote(Append(old, word), a.host, 2)
            /\ n - 1 = 2 => Wrote(Append(old, word), a.host, 3)
            /\ n - 1 = 3 => Wrote(Append(old, word), a.host, 4)
        BY <1>7, <1>8, <4>1, StaysWritten
      <4>5. (n - 1 = 2 => n = 3) /\ (n - 1 = 3 => n = 4)
        BY <2>0
      <4> QED
        BY <2>0, <4>2, <4>3, <4>4, <4>5
    <3> QED
      BY <3>1, <3>2
  <2>4. ASSUME whole PROVE new = SubSeq(EntryWords(a.host, a.offered), 1, n)
    <3>1. old = SubSeq(EntryWords(a.host, a.offered), 1, n - 1)
      <4>1. CASE n = 1
        <5>1. AtLineStart
          BY <2>4, <4>1
        <5>2. old = <<>>
          BY <1>1, <5>1, LineBegins DEF AtLineStart
        <5>3. n - 1 = 0
          BY <4>1
        <5> QED
          BY <1>2, <5>2, <5>3, OneWordMore
      <4>2. CASE n # 1
        BY <2>1, <2>4, <4>2
      <4> QED
        BY <4>1, <4>2
    <3>2. n \in 1 .. 5
      BY <2>0
    <3> HIDE DEF a, n, old, new
    <3> QED
      BY <1>2, <2>0, <3>1, <3>2, OneWordMore DEF word
  <2> HIDE DEF a, n, old, new, whole
  <2> QED
    BY <1>4, <2>2, <2>3, <2>4
<1>11. Stands(b, Append(file, word))
  <2>1. Append(file, word) # <<>>
    BY <1>1, <1>7, AppendedIsNotEmpty
  <2>2. whole \in BOOLEAN /\ n # 0
    BY <1>3, <1>6
  <2>3. n < 5 => /\ b.cut => Headless(LastLine(Append(file, word)))
                 /\ ~b.cut => Wrote(LastLine(Append(file, word)), b.host, b.words)
                 /\ b.whole => LastLine(Append(file, word)) = SubSeq(EntryWords(b.host, b.offered), 1, b.words)
    BY <1>10
  <2> HIDE DEF a, n, word, whole, phase
  <2> QED
    BY <1>4, <1>6, <2>1, <2>2, <2>3 DEF Stands
<1> QED
  BY <1>5, <1>11 DEF b

(* What stands of the entry of another.                                    *)
LEMMA OtherStands ==
  ASSUME TrustInv, Sound, NEW s, NEW r \in Attempts, r # s, NEW word \in Word,
         r \in Writers => ~attempt[r].cut
  PROVE  LET a == Disturbed(s, word = Newline)[r]
         IN  Knows(a, accepted) /\ Stands(a, Append(file, word))
<1> DEFINE was == attempt[r]
           a == Disturbed(s, word = Newline)[r]
           words == Append(file, word)
<1>1. /\ Cautious(was) /\ Knows(was, accepted) /\ Stands(was, file) /\ file \in Seq(Word)
  BY DEF TrustInv, Sound
<1>2. CASE r \notin Writers
  <2>1. a = was
    BY <1>2 DEF Disturbed
  <2>2. ~(was.phase = "writing" /\ was.words > 0)
    BY <1>2 DEF Writers, Phase
  <2>3. Stands(was, words)
    BY <1>1, <2>2 DEF Stands
  <2> QED
    BY <1>1, <2>1, <2>3
<1>3. CASE r \in Writers
  <2>1. a = [was EXCEPT !.whole = FALSE, !.cut = @ \/ (word = Newline)]
    BY <1>3 DEF Disturbed
  <2>2. was.phase = "writing" /\ was.words > 0 /\ was.words \in 0 .. 5 /\ ~was.cut
    BY <1>1, <1>3 DEF Writers, Phase, Cautious, LastWord
  <2>3. /\ a.phase = was.phase /\ a.host = was.host /\ a.offered = was.offered /\ a.pin = was.pin
        /\ a.words = was.words /\ a.whole = FALSE /\ a.cut = (was.cut \/ word = Newline)
        /\ a.told = was.told
    <3>1. was = [x \in Fields |-> was[x]]
      BY <1>1 DEF Cautious
    <3> HIDE DEF a, was
    <3> QED
      BY <2>1, <3>1 DEF Fields
  <2>4. was.cut \in BOOLEAN /\ (was.words < 5 => Wrote(LastLine(file), was.host, was.words))
    BY <1>1, <2>2 DEF Stands
  <2>5. /\ LastLine(file) \in Seq(Word)
        /\ LastLine(words) = IF word = Newline THEN <<>> ELSE Append(LastLine(file), word)
    BY <1>1, LastLineGrows
  <2> HIDE DEF a
  <2>6. Knows(a, accepted)
    BY <1>1, <2>2, <2>3 DEF Knows, Trusting
  <2>7. words # <<>>
    BY <1>1, AppendedIsNotEmpty
  <2>10. a.words # 0 /\ a.whole \in BOOLEAN /\ ~a.whole
    <3>1. a.whole \in BOOLEAN /\ ~a.whole
      BY <2>3
    <3>2. was.words # 0
      BY <2>2
    <3> QED
      BY <2>3, <3>1, <3>2
  <2>8. ASSUME word = Newline PROVE Stands(a, words)
    <3>1. a.cut \in BOOLEAN /\ a.cut /\ LastLine(words) = <<>>
      BY <2>3, <2>5, <2>8
    <3> HIDE DEF words, was
    <3> QED
      BY <2>7, <2>10, <3>1, EmptyIsHeadless, Zenon DEF Stands
  <2>9. ASSUME word # Newline PROVE Stands(a, words)
    <3>1. was.words < 5 => Wrote(LastLine(words), was.host, was.words)
      <4>1. was.words < 5 => was.words \in 1 .. 4
        BY <2>2
      <4> QED
        BY <2>4, <2>5, <2>9, <4>1, StaysWritten
    <3>2. a.cut \in BOOLEAN /\ ~a.cut
      BY <2>2, <2>3, <2>9
    <3>3. a.words < 5 => Wrote(LastLine(words), a.host, a.words)
      BY <2>3, <3>1
    <3> HIDE DEF words, was
    <3> QED
      BY <2>7, <2>10, <3>2, <3>3, Zenon DEF Stands
  <2> QED
    BY <2>6, <2>8, <2>9 DEF a
<1> QED
  BY <1>2, <1>3

-----------------------------------------------------------------------------
(* A word is written, by one attempt among others.                         *)
LEMMA WritePins ==
  ASSUME TrustInv, Sound, ~smeared', NEW s \in Attempts, WriteWord(s)
  PROVE  Sound'
<1> DEFINE a == attempt[s]
           n == a.words + 1
           word == EntryWords(a.host, a.offered)[n]
           whole == a.whole /\ (n = 1 => AtLineStart)
           b == [a EXCEPT !.words = n, !.whole = whole,
                          !.phase = IF n = LastWord THEN "trusted" ELSE "writing"]
           words == Append(file, word)
           ends == word = Newline
<1>1. /\ file' = words /\ forget' = forget /\ accepted' = accepted
      /\ attempt' = [Disturbed(s, ends) EXCEPT ![s] = b]
      /\ pins' = IF word # a.offered THEN pins
                 ELSE [pins EXCEPT ![a.host] = IF whole THEN a.offered ELSE None]
      /\ ~Smears(s)
  <2>1. file' = Written(word) /\ smeared' = (smeared \/ Smears(s) \/ Spelled(word))
    BY DEF WriteWord
  <2>2. ~Spelled(word) /\ ~Smears(s)
    BY <2>1
  <2>3. file' = words
    BY <2>1, <2>2 DEF Written
  <2> QED
    BY <2>2, <2>3 DEF WriteWord
<1>2. /\ Cautious(a) /\ a.phase = "writing" /\ a.words \in 0 .. 5
      /\ Knows(a, accepted) /\ Stands(a, file) /\ file \in Seq(Word)
      /\ pins \in [Hosts -> Keys \union {None}] /\ accepted \in [Hosts -> SUBSET Keys]
  BY DEF WriteWord, Phase, TrustInv, Cautious, Sound, LastWord
<1>3. a.host \in Hosts /\ a.offered \in Keys /\ a.offered \in accepted[a.host]
  BY <1>2 DEF Knows
<1>4. n \in 1 .. 6 /\ n - 1 = a.words
  BY <1>2
<1>5. /\ n = 1 => word = a.host
      /\ n = 2 \/ n = 4 => word = Space
      /\ n = 3 => word = Algo
      /\ n = 5 => word = a.offered
      /\ n = 6 => word = Newline
  BY <1>3, EntryWordsAre
<1>6. word \in Word
  <2>1. n = 1 \/ n = 2 \/ n = 3 \/ n = 4 \/ n = 5 \/ n = 6
    BY <1>4
  <2> HIDE DEF a, n, word
  <2> QED
    BY <1>3, <1>5, <2>1 DEF Word
<1>7. words \in Seq(Word)
  BY <1>2, <1>6, AppendProperties
<1>8. \A r \in Attempts : r # s /\ r \in Writers => ~attempt[r].cut
  BY <1>1 DEF Smears
<1>9. Knows(b, accepted) /\ Stands(b, words)
  BY WriterStands
<1> HIDE DEF b, words
<1>10. ASSUME NEW r \in Attempts PROVE Knows(attempt'[r], accepted) /\ Stands(attempt'[r], words)
  <2>1. attempt'[r] = IF r = s THEN b ELSE Disturbed(s, ends)[r]
    <3> HIDE DEF ends
    <3> QED
      BY <1>1, OthersWrite
  <2>2. r # s => Knows(Disturbed(s, ends)[r], accepted) /\ Stands(Disturbed(s, ends)[r], words)
    <3> HIDE DEF a, n, word
    <3> QED
      BY <1>6, <1>8, OtherStands DEF words
  <2> QED
    BY <1>9, <2>1, <2>2
<1>11. whole \in BOOLEAN
  <2>1. a.whole \in BOOLEAN
    <3>1. CASE a.words = 0
      BY <1>2, <3>1 DEF Stands
    <3>2. CASE a.words # 0
      BY <1>2, <3>2 DEF Stands
    <3> QED
      BY <3>1, <3>2
  <2> QED
    BY <2>1
<1>12. pins' \in [Hosts -> Keys \union {None}]
  <2> HIDE DEF whole, word, n
  <2> QED
    BY <1>1, <1>2, <1>3
<1>13. ASSUME NEW h \in Hosts PROVE Fits(Load(words), h, pins'[h], accepted[h])
  <2>1. Fits(Load(file), h, pins[h], accepted[h])
    BY DEF Sound
  <2>2. CASE n \in {2, 4, 6}
    <3>1. word \in {Space, Newline} /\ word # a.offered
      BY <1>3, <1>5, <2>2, NamesDiffer
    <3> HIDE DEF word, a
    <3> QED
      BY <1>1, <1>2, <2>1, <3>1, BlankFits DEF words
  <2>3. CASE n \in {1, 3}
    <3>1. word \notin {Space, Newline} /\ word \notin Keys /\ word # a.offered
      BY <1>3, <1>5, <2>3, NamesDiffer
    <3> HIDE DEF word, a
    <3> QED
      BY <1>1, <1>2, <1>6, <2>1, <3>1, NameFits DEF words
  <2>4. CASE n = 5
    <3>1. word = a.offered /\ a.words = 4 /\ (whole <=> a.whole)
      BY <1>4, <1>5, <2>4
    <3>2. /\ Headless(LastLine(file)) \/ Wrote(LastLine(file), a.host, 4)
          /\ a.whole => LastLine(file) = SubSeq(EntryWords(a.host, a.offered), 1, 4)
      <4>1. a.words > 0 /\ a.words < 5
        BY <3>1
      <4> QED
        BY <1>2, <3>1, <4>1 DEF Stands
    <3>3. a.whole => LastLine(file) = <<a.host, Space, Algo, Space>>
      <4>1. 5 \in 1 .. 5
        OBVIOUS
      <4> QED
        BY <1>3, <3>2, <4>1, OneWordMore
    <3>4. pins' = [pins EXCEPT ![a.host] = IF whole THEN a.offered ELSE None]
      BY <1>1, <3>1
    <3>5. words = Append(file, a.offered)
      BY <3>1 DEF words
    <3>6. whole => LastLine(file) = <<a.host, Space, Algo, Space>>
      BY <3>1, <3>3
    <3>7. h = a.host => a.offered \in accepted[h]
      BY <1>3
    <3> HIDE DEF a, n, word, whole
    <3>8. pins'[h] = IF h # a.host THEN pins[h] ELSE IF whole THEN a.offered ELSE None
      BY <1>2, <3>4
    <3> QED
      BY <1>2, <1>3, <1>11, <2>1, <3>2, <3>5, <3>6, <3>7, <3>8, KeyFits
  <2> QED
    BY <1>4, <2>2, <2>3, <2>4
<1> HIDE DEF a, n, word, whole, ends
<1>14. Holds(forget', accepted')
  BY <1>1 DEF Sound
<1> QED
  BY <1>1, <1>2, <1>7, <1>10, <1>12, <1>13, <1>14 DEF Sound

(* A write fails.  The piece it leaves is no name and no key, so that no   *)
(* host gets a key by it.                                                  *)
LEMMA FailurePins ==
  ASSUME TrustInv, Sound, ~smeared', NEW s \in Attempts, WriteFails(s)
  PROVE  Sound'
<1>1. UNCHANGED <<forget, accepted, pins>>
  BY DEF WriteFails
<1>2. CASE Set(s, Idle) /\ UNCHANGED file
  BY <1>1, <1>2, IdleHolds, AttemptChanges
<1>3. ASSUME NEW word \in {NamePiece, WordPiece}, file' = Append(file, word),
             attempt' = [Disturbed(s, FALSE) EXCEPT ![s] = Idle], ~Smears(s)
      PROVE  Sound'
  <2> DEFINE words == Append(file, word)
  <2>1. word \in Word /\ word \notin {Space, Newline} /\ word \notin Keys
    BY NamesAssumption DEF Word, NamePiece, WordPiece, Space, Newline
  <2>2. file \in Seq(Word) /\ words \in Seq(Word)
    BY <2>1, AppendProperties DEF Sound
  <2>3. ASSUME NEW r \in Attempts, r # s
        PROVE  Knows(Disturbed(s, FALSE)[r], accepted) /\ Stands(Disturbed(s, FALSE)[r], words)
    <3>1. r \in Writers => ~attempt[r].cut
      BY <1>3, <2>3 DEF Smears
    <3>2. (word = Newline) = FALSE
      BY <2>1
    <3> QED
      BY <2>1, <2>3, <3>1, <3>2, OtherStands
  <2> HIDE DEF words
  <2>4. ASSUME NEW r \in Attempts PROVE Knows(attempt'[r], accepted) /\ Stands(attempt'[r], words)
    <3>1. attempt'[r] = IF r = s THEN Idle ELSE Disturbed(s, FALSE)[r]
      BY <1>3, OthersWrite
    <3> QED
      BY <2>3, <3>1, IdleHolds
  <2>5. \A h \in Hosts : Fits(Load(words), h, pins[h], accepted[h])
    BY <2>1, <2>2, NameFits DEF Sound, words
  <2>6. file' = words
    BY <1>3 DEF words
  <2> QED
    BY <1>1, <2>2, <2>4, <2>5, <2>6 DEF Sound
<1>4. \/ Set(s, Idle) /\ UNCHANGED file
      \/ \E word \in {NamePiece, WordPiece} :
           /\ file' = Append(file, word)
           /\ attempt' = [Disturbed(s, FALSE) EXCEPT ![s] = Idle]
           /\ ~Smears(s)
  BY DEF WriteFails, AfterFailedWrite, PieceOf
<1> QED
  BY <1>2, <1>3, <1>4

-----------------------------------------------------------------------------
(* When nothing of an entry stands, a rewrite disturbs none.               *)
LEMMA NobodyWrites ==
  ASSUME TrustInv, Sound, Writers = {}, NEW words
  PROVE  \A r \in Attempts : /\ Disturbed(None, TRUE)[r] = attempt[r]
                             /\ Knows(attempt[r], accepted) /\ Stands(attempt[r], words)
<1> SUFFICES ASSUME NEW r \in Attempts
             PROVE  /\ Disturbed(None, TRUE)[r] = attempt[r]
                    /\ Knows(attempt[r], accepted) /\ Stands(attempt[r], words)
  OBVIOUS
<1>1. Knows(attempt[r], accepted) /\ Stands(attempt[r], file)
  BY DEF Sound
<1>2. ~(attempt[r].phase = "writing" /\ attempt[r].words > 0)
  BY DEF Writers, Phase
<1>3. Stands(attempt[r], words)
  BY <1>1, <1>2 DEF Stands
<1> QED
  BY <1>1, <1>3 DEF Disturbed

(* --forget-host cuts the file: no host has an entry.                      *)
LEMMA TruncatePins ==
  ASSUME TrustInv, Sound, ~smeared', ForgetTruncate
  PROVE  Sound'
<1>1. /\ file' = <<>> /\ attempt' = Disturbed(None, TRUE) /\ pins' = [h \in Hosts |-> None]
      /\ accepted' = accepted /\ Writers = {} /\ forget' = [forget EXCEPT !.phase = "cut"]
      /\ forget.phase = "loaded"
  BY DEF ForgetTruncate
<1>2. \A h \in Hosts : Fits(Load(<<>>), h, None, accepted[h])
  BY EmptyFile DEF Fits, Empty
<1>3. \A r \in Attempts : Knows(attempt'[r], accepted) /\ Stands(attempt'[r], <<>>)
  BY <1>1, NobodyWrites
<1>4. Holds(forget', accepted)
  <2>1. Holds(forget, accepted)
    BY DEF Sound
  <2> QED
    BY <1>1, <2>1 DEF Holds
<1>5. pins' \in [Hosts -> Keys \union {None}] /\ <<>> \in Seq(Word)
  BY <1>1
<1>6. \A h \in Hosts : pins'[h] = None
  BY <1>1
<1> QED
  BY <1>1, <1>2, <1>3, <1>4, <1>5, <1>6 DEF Sound

(* --forget-host is killed: what it kept is lost, nothing else changes.    *)
LEMMA KilledPins ==
  ASSUME Sound, ForgetKilled
  PROVE  Sound'
<1>1. /\ UNCHANGED <<file, attempt, accepted, pins>> /\ forget' = NotForgetting
  BY DEF ForgetKilled, ghosts
<1>2. Holds(NotForgetting, accepted)
  BY DEF Holds, NotForgetting
<1> QED
  BY <1>1, <1>2 DEF Sound

-----------------------------------------------------------------------------
(* A piece of a line, word by word.                                        *)
LEMMA Piece ==
  ASSUME NEW line \in Seq(Word), NEW i \in 1 .. Len(line) + 1, NEW j \in 0 .. Len(line), i <= j + 1
  PROVE  /\ SubSeq(line, i, j) \in Seq(Word) /\ Len(SubSeq(line, i, j)) = j + 1 - i
         /\ \A n \in 1 .. j + 1 - i : /\ SubSeq(line, i, j)[n] = line[i + n - 1]
                                      /\ i + n - 1 \in i .. j
<1>1. i \in Int /\ j \in Int /\ Len(line) \in Nat
  OBVIOUS
<1>2. \A n \in i .. j : n \in 1 .. Len(line) /\ line[n] \in Word
  BY <1>1
<1>3. /\ SubSeq(line, i, j) \in Seq(Word)
      /\ Len(SubSeq(line, i, j)) = IF i <= j THEN j - i + 1 ELSE 0
      /\ \A n \in 1 .. j - i + 1 : SubSeq(line, i, j)[n] = line[i + n - 1]
  BY <1>1, <1>2, SubSeqProperties
<1>4. j + 1 - i = j - i + 1 /\ (~(i <= j) => j + 1 - i = 0)
  BY <1>1
<1>5. \A n \in 1 .. j - i + 1 : i + n - 1 \in i .. j
  BY <1>1
<1> QED
  BY <1>3, <1>4, <1>5

(* The parts of an entry are such that they can be written and read again. *)
LEMMA EntryParts ==
  ASSUME NEW line \in Seq(Word), EntryOf(line) # <<>>, \A i \in 1 .. Len(line) : line[i] # Newline
  PROVE  \E t, x, y : EntryOf(line) = <<t, x, y>> /\ Host(t) /\ Algorithm(x) /\ Rest(y)
<1>1. PICK f, a, b, l : Parts(line, f, a, b, l)
  BY EntryHas
<1> DEFINE n == Len(line)
           t == SubSeq(line, f, a - 1)
           x == SubSeq(line, a + 1, b - 1)
           y == SubSeq(line, b + 1, l)
<1>2. EntryOf(line) = <<t, x, y>>
  BY <1>1, EntryIs
<1>3. /\ n \in Nat /\ f \in 1 .. n /\ l \in 1 .. n /\ a \in Int /\ b \in Int
      /\ f < a /\ a < b /\ b < l
  BY <1>1 DEF Parts
<1> HIDE DEF n
<1>4. Host(t)
  <2>1. f \in 1 .. n + 1 /\ a - 1 \in 0 .. n /\ f <= a - 1 + 1 /\ a - 1 + 1 - f # 0 /\ a - 1 + 1 - f \in Nat
    BY <1>3
  <2>2. /\ t \in Seq(Word) /\ Len(t) = a - 1 + 1 - f
        /\ \A i \in 1 .. a - 1 + 1 - f : t[i] = line[f + i - 1] /\ f + i - 1 \in f .. a - 1
    BY <2>1, Piece DEF n
  <2>3. ASSUME NEW i \in f .. a - 1 PROVE line[i] \notin {Space, Newline}
    <3>1. i \in 1 .. n /\ (i = f \/ f < i) /\ i < a
      BY <1>3
    <3> QED
      BY <1>1, <3>1 DEF Parts, n
  <2> HIDE DEF t
  <2>4. t # <<>>
    BY <2>1, <2>2
  <2>5. \A i \in 1 .. Len(t) : t[i] \notin {Space, Newline}
    BY <2>2, <2>3
  <2> QED
    BY <2>2, <2>4, <2>5 DEF Host
<1>5. Algorithm(x)
  <2>1. a + 1 \in 1 .. n + 1 /\ b - 1 \in 0 .. n /\ a + 1 <= b - 1 + 1
    BY <1>3
  <2>2. /\ x \in Seq(Word) /\ Len(x) = b - 1 + 1 - (a + 1)
        /\ \A i \in 1 .. b - 1 + 1 - (a + 1) : x[i] = line[(a + 1) + i - 1] /\ (a + 1) + i - 1 \in a + 1 .. b - 1
    BY <2>1, Piece DEF n
  <2>3. ASSUME NEW i \in a + 1 .. b - 1 PROVE line[i] \notin {Space, Newline}
    <3>1. i \in 1 .. n /\ a < i /\ i < b
      BY <1>3
    <3> QED
      BY <1>1, <3>1 DEF Parts, n
  <2> HIDE DEF x
  <2>4. \A i \in 1 .. Len(x) : x[i] \notin {Space, Newline}
    BY <2>2, <2>3
  <2> QED
    BY <2>2, <2>4 DEF Algorithm
<1>6. Rest(y)
  <2>1. b + 1 \in 1 .. n + 1 /\ l \in 0 .. n /\ b + 1 <= l + 1
    BY <1>3
  <2>2. /\ y \in Seq(Word) /\ Len(y) = l + 1 - (b + 1)
        /\ \A i \in 1 .. l + 1 - (b + 1) : y[i] = line[(b + 1) + i - 1] /\ (b + 1) + i - 1 \in b + 1 .. l
    BY <2>1, Piece DEF n
  <2>3. ASSUME NEW i \in b + 1 .. l PROVE line[i] # Newline
    <3>1. i \in 1 .. n
      BY <1>3
    <3> QED
      BY <3>1 DEF n
  <2>4. line[l] # Space
    BY <1>1 DEF Parts
  <2> HIDE DEF y
  <2>5. Len(y) \in 1 .. l + 1 - (b + 1) /\ (b + 1) + Len(y) - 1 = l
    BY <1>3, <2>2
  <2>6. y # <<>> /\ y[Len(y)] # Space
    BY <2>2, <2>4, <2>5
  <2>7. \A i \in 1 .. Len(y) : y[i] # Newline
    BY <2>2, <2>3
  <2> QED
    BY <2>2, <2>6, <2>7 DEF Rest
<1> HIDE DEF t, x, y
<1> QED
  BY <1>2, <1>4, <1>5, <1>6

(* So it is with all of the store.                                         *)
LEMMA StoreIsReadable ==
  ASSUME NEW f \in Seq(Word)
  PROVE  Readable(Load(f))
<1> DEFINE held == Load(f)
           starts == EntryStarts(f)
<1>1. IsFiniteSet(DOMAIN held)
  <2> DEFINE name == [i \in starts |-> EntryAt(f, i)[1]]
  <2>1. IsFiniteSet(starts)
    <3>1. Len(f) + 1 \in Nat /\ 1 \in Int /\ Len(f) + 1 \in Int /\ starts \subseteq 1 .. Len(f) + 1
      BY StartsType DEF EntryStarts
    <3> QED
      BY <3>1, FS_Interval, FS_Subset
  <2>2. name \in Surjection(starts, DOMAIN held)
    <3>1. DOMAIN held = {EntryAt(f, i)[1] : i \in starts}
      BY DEF Load
    <3>2. name \in [starts -> DOMAIN held]
      BY <3>1
    <3>3. \A t \in DOMAIN held : \E i \in starts : name[i] = t
      BY <3>1
    <3> QED
      BY <3>2, <3>3 DEF Surjection
  <2> HIDE DEF name, starts, held
  <2> QED
    BY <2>1, <2>2, FS_Surjection
<1>2. ASSUME NEW t \in DOMAIN held
      PROVE  Host(t) /\ \E x, y : held[t] = <<x, y>> /\ Algorithm(x) /\ Rest(y)
  <2>1. PICK m \in StartsOf(f, t) : \A i \in StartsOf(f, t) : i <= m
    BY StoreIs
  <2>2. held[t] = Tail(EntryAt(f, m))
    BY <2>1, StoreIs
  <2>3. m \in LineStarts(f) /\ EntryOf(LineAt(f, m)) # <<>> /\ EntryOf(LineAt(f, m))[1] = t
        /\ EntryAt(f, m) = EntryOf(LineAt(f, m))
    BY DEF StartsOf, EntryStarts, EntryAt
  <2>4. LineAt(f, m) \in Seq(Word) /\ \A i \in 1 .. Len(LineAt(f, m)) : LineAt(f, m)[i] # Newline
    BY <2>3, StartsType, LineFacts
  <2>5. PICK u, x, y : EntryOf(LineAt(f, m)) = <<u, x, y>> /\ Host(u) /\ Algorithm(x) /\ Rest(y)
    BY <2>3, <2>4, EntryParts
  <2>6. u = t /\ held[t] = <<x, y>>
    BY <2>2, <2>3, <2>5, ThreeParts
  <2> QED
    BY <2>5, <2>6
<1> HIDE DEF held
<1> QED
  BY <1>1, <1>2 DEF Readable, held

(* --forget-host keeps what the store says of the others.                  *)
LEMMA ForgetLoadPins ==
  ASSUME Sound, ForgetLoad
  PROVE  Sound'
<1> DEFINE loaded == Load(file)
           kept(h) == [t \in DOMAIN loaded \ {<<h>>} |-> loaded[t]]
           some(h) == [phase |-> "loaded", host |-> h, kept |-> kept(h), pins |-> [pins EXCEPT ![h] = None]]
<1>1. PICK h \in Hosts : forget' = NotForgetting \/ forget' = some(h)
  BY DEF ForgetLoad
<1>2. UNCHANGED <<file, attempt, accepted, pins>>
  BY DEF ForgetLoad, ghosts
<1>3. file \in Seq(Word) /\ pins \in [Hosts -> Keys \union {None}]
  BY DEF Sound
<1>4. Holds(NotForgetting, accepted)
  BY DEF Holds, NotForgetting
<1>5. Holds(some(h), accepted)
  <2>1. Readable(kept(h))
    <3>1. Readable(loaded)
      BY <1>3, StoreIsReadable
    <3>2. DOMAIN kept(h) \subseteq DOMAIN loaded /\ \A t \in DOMAIN kept(h) : kept(h)[t] = loaded[t]
      OBVIOUS
    <3>3. IsFiniteSet(DOMAIN kept(h))
      BY <3>1, <3>2, FS_Subset DEF Readable
    <3> HIDE DEF kept, loaded
    <3> QED
      BY <3>1, <3>2, <3>3 DEF Readable
  <2>2. ASSUME NEW g \in Hosts PROVE Fits(kept(h), g, [pins EXCEPT ![h] = None][g], accepted[g])
    <3>1. Fits(loaded, g, pins[g], accepted[g])
      BY DEF Sound
    <3>2. CASE g = h
      <4>1. <<g>> \notin DOMAIN kept(h) /\ [pins EXCEPT ![h] = None][g] = None
        BY <1>3, <3>2
      <4> QED
        BY <4>1 DEF Fits
    <3>3. CASE g # h
      <4>1. <<g>> # <<h>>
        BY <3>3, OneWord
      <4>2. /\ <<g>> \in DOMAIN kept(h) <=> <<g>> \in DOMAIN loaded
            /\ <<g>> \in DOMAIN loaded => kept(h)[<<g>>] = loaded[<<g>>]
        BY <4>1
      <4>3. [pins EXCEPT ![h] = None][g] = pins[g]
        BY <1>3, <3>3
      <4> HIDE DEF kept, loaded
      <4> QED
        BY <3>1, <4>2, <4>3 DEF Fits
    <3> QED
      BY <3>2, <3>3
  <2>3. [pins EXCEPT ![h] = None] \in [Hosts -> Keys \union {None}]
    BY <1>3
  <2> HIDE DEF kept
  <2> QED
    BY <2>1, <2>2, <2>3 DEF Holds
<1> HIDE DEF some
<1> QED
  BY <1>1, <1>2, <1>4, <1>5 DEF Sound

-----------------------------------------------------------------------------
(* A piece of a line that has the words of another is that one.            *)
LEMMA PieceIs ==
  ASSUME NEW line \in Seq(Word), NEW s \in Seq(Word), NEW i \in 1 .. Len(line) + 1, NEW j \in 0 .. Len(line),
         i + Len(s) = j + 1, \A n \in 1 .. Len(s) : line[i + n - 1] = s[n]
  PROVE  SubSeq(line, i, j) = s
<1>1. i <= j + 1 /\ j + 1 - i = Len(s)
  OBVIOUS
<1>2. /\ SubSeq(line, i, j) \in Seq(Word) /\ Len(SubSeq(line, i, j)) = Len(s)
      /\ \A n \in 1 .. Len(s) : SubSeq(line, i, j)[n] = line[i + n - 1]
  BY <1>1, Piece, SMTT(30)
<1> QED
  BY <1>2, SeqEqual

(* Two sequences of words, one after the other.                            *)
LEMMA Joined ==
  ASSUME NEW s \in Seq(Word), NEW r \in Seq(Word), NEW n, n = Len(s), NEW l, l = Len(r)
  PROVE  /\ s \o r \in Seq(Word) /\ Len(s \o r) = n + l
         /\ \A i \in 1 .. n : (s \o r)[i] = s[i]
         /\ \A i \in 1 .. l : (s \o r)[n + i] = r[i]
<1>1. n \in Nat /\ l \in Nat
  OBVIOUS
<1>2. /\ s \o r \in Seq(Word) /\ Len(s \o r) = n + l
      /\ \A i \in 1 .. n + l : (s \o r)[i] = IF i <= n THEN s[i] ELSE r[i - n]
  BY ConcatProperties
<1>3. \A i \in 1 .. n : i \in 1 .. n + l /\ i <= n
  BY <1>1
<1>4. \A i \in 1 .. l : n + i \in 1 .. n + l /\ ~(n + i <= n) /\ (n + i) - n = i
  BY <1>1
<1> QED
  BY <1>2, <1>3, <1>4

(* A word after a sequence of words.                                       *)
LEMMA JoinedWord ==
  ASSUME NEW s \in Seq(Word), NEW w \in Word, NEW n, n = Len(s)
  PROVE  /\ s \o <<w>> \in Seq(Word) /\ Len(s \o <<w>>) = n + 1 /\ (s \o <<w>>)[n + 1] = w
         /\ \A i \in 1 .. n : (s \o <<w>>)[i] = s[i]
<1>1. s \o <<w>> = Append(s, w)
  OBVIOUS
<1> QED
  BY <1>1, AppendProperties

(* A line written of an entry is read as that entry.                       *)
LEMMA EntryIsReadBack ==
  ASSUME NEW t, NEW x, NEW y, Host(t), Algorithm(x), Rest(y)
  PROVE  LET line == t \o <<Space>> \o x \o <<Space>> \o y
         IN  /\ line \in Seq(Word) /\ \A i \in 1 .. Len(line) : line[i] # Newline
             /\ EntryOf(line) = <<t, x, y>>
<1> DEFINE lt == Len(t)
           lx == Len(x)
           ly == Len(y)
           one == <<Space>>
           ta == t \o one
           tx == ta \o x
           tb == tx \o one
           line == tb \o y
           a == lt + 1
           b == lt + lx + 2
           l == lt + lx + 2 + ly
<1>1. /\ t \in Seq(Word) /\ x \in Seq(Word) /\ y \in Seq(Word) /\ one \in Seq(Word)
      /\ lt \in Nat /\ lx \in Nat /\ ly \in Nat /\ lt # 0 /\ ly # 0 /\ Len(one) = 1 /\ one[1] = Space
  BY DEF Host, Algorithm, Rest, Word
<1>2. /\ ta \in Seq(Word) /\ Len(ta) = a /\ ta[a] = Space
      /\ \A i \in 1 .. lt : ta[i] = t[i]
  <2>1. t \in Seq(Word) /\ Space \in Word /\ lt = Len(t)
    BY <1>1 DEF Word
  <2> HIDE DEF lt
  <2> QED
    BY <2>1, JoinedWord
<1>3. /\ tx \in Seq(Word) /\ Len(tx) = a + lx /\ tx[a] = Space
      /\ \A i \in 1 .. lt : tx[i] = t[i]
      /\ \A i \in 1 .. lx : tx[a + i] = x[i]
  <2> HIDE DEF ta, a
  <2>1. /\ tx \in Seq(Word) /\ Len(tx) = a + lx
        /\ \A i \in 1 .. a : tx[i] = ta[i]
        /\ \A i \in 1 .. lx : tx[a + i] = x[i]
    <3>1. ta \in Seq(Word) /\ x \in Seq(Word) /\ a = Len(ta) /\ lx = Len(x)
      BY <1>1, <1>2
    <3> HIDE DEF ta, lx
    <3> QED
      BY ONLY <3>1, Joined
  <2>2. a \in 1 .. a /\ \A i \in 1 .. lt : i \in 1 .. a
    BY <1>1 DEF a
  <2> HIDE DEF tx
  <2> QED
    BY <1>2, <2>1, <2>2
<1>4. /\ tb \in Seq(Word) /\ Len(tb) = b /\ tb[a] = Space /\ tb[b] = Space
      /\ \A i \in 1 .. lt : tb[i] = t[i]
      /\ \A i \in 1 .. lx : tb[a + i] = x[i]
  <2> DEFINE c == a + lx
  <2>1. tx \in Seq(Word) /\ Space \in Word /\ c = Len(tx)
    BY <1>3 DEF Word
  <2> HIDE DEF tx, c
  <2>2. /\ tb \in Seq(Word) /\ Len(tb) = c + 1 /\ tb[c + 1] = Space
        /\ \A i \in 1 .. c : tb[i] = tx[i]
    BY <2>1, JoinedWord
  <2> HIDE DEF tb
  <2>3. /\ a \in 1 .. c /\ \A i \in 1 .. lt : i \in 1 .. c
        /\ \A i \in 1 .. lx : a + i \in 1 .. c
        /\ c + 1 = b
    BY <1>1 DEF c
  <2> HIDE DEF a, b, lt, lx
  <2> QED
    BY <1>3, <2>2, <2>3
<1>5. /\ line \in Seq(Word) /\ Len(line) = l /\ line[a] = Space /\ line[b] = Space
      /\ \A i \in 1 .. lt : line[i] = t[i]
      /\ \A i \in 1 .. lx : line[a + i] = x[i]
      /\ \A i \in 1 .. ly : line[b + i] = y[i]
  <2>1. /\ line \in Seq(Word) /\ Len(line) = b + ly
        /\ \A i \in 1 .. b : line[i] = tb[i]
        /\ \A i \in 1 .. ly : line[b + i] = y[i]
    <3>1. tb \in Seq(Word) /\ y \in Seq(Word) /\ b = Len(tb) /\ ly = Len(y)
      BY <1>1, <1>4
    <3> HIDE DEF tb, b, ly
    <3> QED
      BY ONLY <3>1, Joined
  <2>2. /\ a \in 1 .. b /\ b \in 1 .. b /\ \A i \in 1 .. lt : i \in 1 .. b
        /\ \A i \in 1 .. lx : a + i \in 1 .. b
        /\ b + ly = l
    BY <1>1
  <2> HIDE DEF tb, line, a, b, l
  <2> QED
    BY <1>4, <2>1, <2>2
<1> HIDE DEF line
<1>6. ASSUME NEW i \in 1 .. l
      PROVE  \/ i \in 1 .. lt
             \/ i = a
             \/ \E n \in 1 .. lx : i = a + n
             \/ i = b
             \/ \E n \in 1 .. ly : i = b + n
  <2>1. CASE i <= lt
    BY <1>1, <2>1
  <2>2. CASE a < i /\ i < b
    <3>1. i - a \in 1 .. lx /\ i = a + (i - a)
      BY <1>1, <2>2
    <3> HIDE DEF a, b, l
    <3> QED
      BY <3>1
  <2>3. CASE b < i
    <3>1. i - b \in 1 .. ly /\ i = b + (i - b)
      BY <1>1, <2>3
    <3> HIDE DEF a, b, l
    <3> QED
      BY <3>1
  <2>4. i <= lt \/ i = a \/ (a < i /\ i < b) \/ i = b \/ b < i
    <3>1. lt \in Nat /\ lx \in Nat /\ i \in Nat
      BY <1>1
    <3> HIDE DEF lt, lx, l
    <3> QED
      BY <3>1
  <2> QED
    BY ONLY <2>1, <2>2, <2>3, <2>4
<1>7. /\ \A i \in 1 .. lt : t[i] # Space /\ t[i] # Newline
      /\ \A i \in 1 .. lx : x[i] # Space /\ x[i] # Newline
      /\ \A i \in 1 .. ly : y[i] # Newline
      /\ y[ly] # Space /\ Space # Newline
  BY DEF Host, Algorithm, Rest, Space, Newline
<1>8. ASSUME NEW i \in 1 .. l PROVE line[i] # Newline
  <2> HIDE DEF a, b, l, lt, lx, ly
  <2> QED
    BY <1>5, <1>6, <1>7
<1>9. Parts(line, 1, a, b, l)
  <2>1. 1 \in 1 .. l /\ l \in 1 .. l /\ a \in Int /\ b \in Int /\ 1 < a /\ a < b /\ b < l
    BY <1>1
  <2>2. line[1] # Space
    <3>1. 1 \in 1 .. lt
      BY <1>1
    <3> QED
      BY <1>5, <1>7, <3>1
  <2>3. line[l] # Space
    <3>1. ly \in 1 .. ly /\ l = b + ly
      BY <1>1
    <3> QED
      BY <1>5, <1>7, <3>1
  <2>4. ASSUME NEW i \in 1 .. l
        PROVE  /\ ~(i < 1) /\ ~(l < i)
               /\ 1 < i /\ i < a => line[i] # Space
               /\ a < i /\ i < b => line[i] # Space
    <3>1. i < a => i \in 1 .. lt
      BY <1>1
    <3>2. a < i /\ i < b => i - a \in 1 .. lx /\ i = a + (i - a)
      BY <1>1
    <3> HIDE DEF a, b, l
    <3>3. i < a => line[i] # Space
      BY <1>5, <1>7, <3>1
    <3>4. a < i /\ i < b => line[i] # Space
      BY <1>5, <1>7, <3>2
    <3>5. ~(i < 1) /\ ~(l < i)
      BY <2>1
    <3> QED
      BY <3>3, <3>4, <3>5
  <2> HIDE DEF a, b, l
  <2>5. 1 .. Len(line) = 1 .. l
    BY <1>5
  <2> QED
    BY <1>5, <2>1, <2>2, <2>3, <2>4, <2>5 DEF Parts
<1>10. EntryOf(line) = <<SubSeq(line, 1, a - 1), SubSeq(line, a + 1, b - 1), SubSeq(line, b + 1, l)>>
  <2> HIDE DEF a, b, l
  <2> QED
    BY <1>5, <1>9, EntryIs, SMTT(30)
<1>11. SubSeq(line, 1, a - 1) = t
  <2>1. 1 \in 1 .. Len(line) + 1 /\ a - 1 \in 0 .. Len(line) /\ 1 + Len(t) = a - 1 + 1
        /\ \A n \in 1 .. Len(t) : 1 + n - 1 = n /\ line[n] = t[n]
    BY <1>1, <1>5
  <2>2. \A n \in 1 .. Len(t) : line[1 + n - 1] = t[n]
    BY <2>1
  <2> HIDE DEF a
  <2> QED
    BY <1>1, <1>5, <2>1, <2>2, PieceIs
<1>12. SubSeq(line, a + 1, b - 1) = x
  <2>1. a + 1 \in 1 .. Len(line) + 1 /\ b - 1 \in 0 .. Len(line) /\ a + 1 + Len(x) = b - 1 + 1
        /\ \A n \in 1 .. Len(x) : a + 1 + n - 1 = a + n /\ line[a + n] = x[n]
    BY <1>1, <1>5
  <2>2. \A n \in 1 .. Len(x) : line[a + 1 + n - 1] = x[n]
    BY <2>1
  <2> HIDE DEF a, b
  <2> QED
    BY <1>1, <1>5, <2>1, <2>2, PieceIs
<1>13. SubSeq(line, b + 1, l) = y
  <2>1. b + 1 \in 1 .. Len(line) + 1 /\ l \in 0 .. Len(line) /\ b + 1 + Len(y) = l + 1
        /\ \A n \in 1 .. Len(y) : b + 1 + n - 1 = b + n /\ line[b + n] = y[n]
    BY <1>1, <1>5
  <2>2. \A n \in 1 .. Len(y) : line[b + 1 + n - 1] = y[n]
    BY <2>1
  <2> HIDE DEF b, l
  <2> QED
    BY <1>1, <1>5, <2>1, <2>2, PieceIs, ZenonT(60)
<1>14. \A i \in 1 .. Len(line) : line[i] # Newline
  BY <1>5, <1>8
<1>15. EntryOf(line) = <<t, x, y>>
  BY <1>10, <1>11, <1>12, <1>13
<1> QED
  BY <1>5, <1>14, <1>15 DEF line

(* A line more in the file.                                                *)
LEMMA LineAppended ==
  ASSUME NEW f \in Seq(Word), f = <<>> \/ f[Len(f)] = Newline,
         NEW line \in Seq(Word), \A i \in 1 .. Len(line) : line[i] # Newline
  PROVE  LET g == f \o (line \o <<Newline>>)
             m == Len(f) + 1
         IN  /\ g \in Seq(Word) /\ g # <<>> /\ g[Len(g)] = Newline
             /\ m \in LineStarts(f) /\ \A i \in LineStarts(f) : i <= m
             /\ LineStarts(g) = LineStarts(f) \union {Len(g) + 1}
             /\ \A i \in LineStarts(f) : i # m => LineAt(g, i) = LineAt(f, i)
             /\ LineAt(f, m) = <<>> /\ LineAt(g, m) = line /\ LineAt(g, Len(g) + 1) = <<>>
             /\ Len(g) + 1 > m
<1> DEFINE n == Len(f)
           l == Len(line)
           more == line \o <<Newline>>
           g == f \o more
           m == n + 1
           z == n + l + 1
<1>1. /\ n \in Nat /\ l \in Nat /\ <<Newline>> \in Seq(Word) /\ Len(<<Newline>>) = 1 /\ <<Newline>>[1] = Newline
  BY DEF Word
<1>2. /\ more \in Seq(Word) /\ Len(more) = l + 1 /\ more[l + 1] = Newline
      /\ \A i \in 1 .. l : more[i] = line[i]
  BY <1>1, ConcatProperties
<1> HIDE DEF more
<1>3. /\ g \in Seq(Word) /\ Len(g) = z /\ g[z] = Newline
      /\ \A i \in 1 .. n : g[i] = f[i]
      /\ \A i \in 1 .. l : g[n + i] = line[i]
  <2>1. /\ g \in Seq(Word) /\ Len(g) = n + Len(more)
        /\ \A i \in 1 .. n : g[i] = f[i]
        /\ \A i \in 1 .. Len(more) : g[n + i] = more[i]
    <3>1. f \in Seq(Word) /\ more \in Seq(Word) /\ n = Len(f) /\ Len(more) = Len(more)
      BY <1>2
    <3> HIDE DEF n
    <3> QED
      BY ONLY <3>1, Joined
  <2> HIDE DEF g
  <2>2. /\ l + 1 \in 1 .. Len(more) /\ n + (l + 1) = z /\ n + Len(more) = z
        /\ \A i \in 1 .. l : i \in 1 .. Len(more)
    BY <1>1, <1>2
  <2>3. g[z] = Newline
    BY <1>2, <2>1, <2>2
  <2> HIDE DEF z
  <2> QED
    BY <1>2, <2>1, <2>2, <2>3
<1>4. ASSUME NEW i \in n + 1 .. n + l PROVE g[i] # Newline
  <2>1. i - n \in 1 .. l /\ n + (i - n) = i
    BY <1>1
  <2>2. g[n + (i - n)] # Newline
    BY <1>3, <2>1
  <2> QED
    BY <2>1, <2>2
<1> HIDE DEF g
<1>5. m \in LineStarts(f) /\ \A i \in LineStarts(f) : i <= m
  <2>1. \A i \in LineStarts(f) : i <= m
    BY StartsType
  <2>2. CASE f = <<>>
    <3>1. m = 1
      BY <2>2
    <3> QED
      BY <2>1, <3>1, StartsType
  <2>3. CASE f # <<>>
    <3>1. m \in 1 .. Len(f) + 1 /\ m - 1 = Len(f)
      BY <1>1
    <3> QED
      BY <2>3, <3>1 DEF LineStarts
  <2> QED
    BY <2>1, <2>2, <2>3
<1>6. LineStarts(g) = LineStarts(f) \union {z + 1}
  <2>1. ASSUME NEW i \in 1 .. n + 1 PROVE i \in LineStarts(g) <=> i \in LineStarts(f)
    <3>1. i # 1 => i - 1 \in 1 .. n /\ g[i - 1] = f[i - 1]
      BY <1>1, <1>3
    <3>2. i \in 1 .. Len(g) + 1 /\ i \in 1 .. Len(f) + 1
      BY <1>1, <1>3
    <3> QED
      BY <3>1, <3>2 DEF LineStarts
  <2>2. ASSUME NEW i \in n + 2 .. n + l + 1 PROVE i \notin LineStarts(g)
    <3>1. i # 1 /\ i - 1 \in n + 1 .. n + l
      BY <1>1
    <3> QED
      BY <1>4, <3>1 DEF LineStarts
  <2>3. z + 1 \in LineStarts(g)
    <3>1. (z + 1) - 1 = z /\ z + 1 \in 1 .. Len(g) + 1
      BY <1>1, <1>3
    <3> QED
      BY <1>3, <3>1 DEF LineStarts
  <2>4. \A i : i \in 1 .. Len(g) + 1 => i \in 1 .. n + 1 \/ i \in n + 2 .. n + l + 1 \/ i = z + 1
    <3>1. Len(g) + 1 = n + l + 2
      BY <1>1, <1>3
    <3>2. \A i \in 1 .. n + l + 2 : i \in 1 .. n + 1 \/ i \in n + 2 .. n + l + 1 \/ i = n + l + 2
      BY <1>1
    <3>3. z + 1 = n + l + 2
      BY <1>1
    <3> QED
      BY <3>1, <3>2, <3>3
  <2>5. LineStarts(g) \in SUBSET (1 .. Len(g) + 1) /\ LineStarts(f) \in SUBSET (1 .. n + 1)
    BY <1>3, StartsType
  <2> HIDE DEF z, n, l
  <2> QED
    BY <2>1, <2>2, <2>3, <2>4, <2>5
<1>7. ASSUME NEW i \in LineStarts(f), i # m PROVE LineAt(g, i) = LineAt(f, i)
  <2>0. i \in 1 .. n + 1 /\ i < m
    BY <1>1, <1>5, <1>7, StartsType
  <2>1. PICK e \in i - 1 .. n : /\ \A j \in i .. e : f[j] # Newline
                                /\ e = n \/ f[e + 1] = Newline
    BY <2>0, LineHas DEF n
  <2>2. f[n] = Newline /\ n \in i .. n
    BY <1>1, <2>0
  <2>3. e # n /\ e \in Int
    BY <1>1, <2>0, <2>1, <2>2
  <2>4. e + 1 \in 1 .. n /\ f[e + 1] = Newline /\ e \in i - 1 .. Len(g) /\ i \in 1 .. Len(g) + 1
    BY <1>1, <1>3, <2>0, <2>1, <2>3
  <2>5. g[e + 1] = Newline
    BY <1>3, <2>4
  <2>6. \A j \in i .. e : j \in 1 .. n /\ g[j] = f[j] /\ g[j] # Newline
    BY <1>1, <1>3, <2>0, <2>1
  <2>7. LineAt(f, i) = SubSeq(f, i, e)
    BY <2>0, <2>1, LineIs DEF n
  <2>8. LineAt(g, i) = SubSeq(g, i, e)
    BY <1>3, <2>4, <2>5, <2>6, LineIs
  <2>9. SubSeq(g, i, e) = SubSeq(f, i, e)
    <3> HIDE DEF m, z
    <3>1. i \in Int /\ e \in Int /\ \A j \in i .. e : j \in 1 .. n /\ g[j] = f[j]
      BY <2>0, <2>3, <2>6
    <3> QED
      BY <1>3, <3>1, SamePiece DEF n
  <2> QED
    BY <2>7, <2>8, <2>9
<1>8. LineAt(f, m) = <<>>
  <2>1. LineAt(f, m) = SubSeq(f, m, n)
    BY <1>5, LastLineIs DEF n
  <2> QED
    BY <1>1, <2>1, SubSeqEmpty
<1>9. LineAt(g, m) = line
  <2>1. m \in 1 .. Len(g) + 1 /\ n + l \in m - 1 .. Len(g) /\ g[n + l + 1] = Newline
    BY <1>1, <1>3
  <2>2. LineAt(g, m) = SubSeq(g, m, n + l)
    BY <1>3, <1>4, <2>1, LineIs
  <2>3. m \in 1 .. Len(g) + 1 /\ n + l \in 0 .. Len(g) /\ m + Len(line) = n + l + 1
        /\ \A i \in 1 .. Len(line) : m + i - 1 = n + i /\ g[n + i] = line[i]
    BY <1>1, <1>3
  <2>4. \A i \in 1 .. Len(line) : g[m + i - 1] = line[i]
    BY <2>3
  <2>5. SubSeq(g, m, n + l) = line
    <3> HIDE DEF m, l
    <3> QED
      BY <1>3, <2>3, <2>4, PieceIs
  <2> QED
    BY <2>2, <2>5
<1>10. LineAt(g, z + 1) = <<>>
  <2>1. \A i \in LineStarts(g) : i <= z + 1
    BY <1>3, StartsType
  <2>2. LineAt(g, z + 1) = SubSeq(g, z + 1, z)
    BY <1>3, <1>6, <2>1, LastLineIs
  <2> QED
    BY <1>1, <2>2, SubSeqEmpty
<1>11. g # <<>> /\ z + 1 > m
  BY <1>1, <1>3
<1> QED
  BY <1>3, <1>5, <1>6, <1>7, <1>8, <1>9, <1>10, <1>11 DEF g, more

(* An entry more in the store.                                             *)
LEMMA EntryAppended ==
  ASSUME NEW f \in Seq(Word), f = <<>> \/ f[Len(f)] = Newline,
         NEW line \in Seq(Word), \A i \in 1 .. Len(line) : line[i] # Newline,
         NEW t, NEW x, NEW y, EntryOf(line) = <<t, x, y>>, NEW u
  PROVE  LET g == f \o (line \o <<Newline>>)
         IN  /\ g \in Seq(Word) /\ g # <<>> /\ g[Len(g)] = Newline
             /\ u \in DOMAIN Load(g) <=> u = t \/ u \in DOMAIN Load(f)
             /\ u = t => Load(g)[u] = <<x, y>>
             /\ u # t /\ u \in DOMAIN Load(f) => Load(g)[u] = Load(f)[u]
<1> DEFINE g == f \o (line \o <<Newline>>)
           m == Len(f) + 1
           z == Len(g) + 1
<1>1. /\ g \in Seq(Word) /\ g # <<>> /\ g[Len(g)] = Newline
      /\ m \in LineStarts(f) /\ \A i \in LineStarts(f) : i <= m
      /\ LineStarts(g) = LineStarts(f) \union {z}
      /\ \A i \in LineStarts(f) : i # m => LineAt(g, i) = LineAt(f, i)
      /\ LineAt(f, m) = <<>> /\ LineAt(g, m) = line /\ LineAt(g, z) = <<>>
      /\ z > m
  BY LineAppended
<1> HIDE DEF g, m, z
<1>2. /\ EntryAt(f, m) = <<>> /\ EntryAt(g, m) = <<t, x, y>> /\ EntryAt(g, z) = <<>>
      /\ \A i \in LineStarts(f) : i # m => EntryAt(g, i) = EntryAt(f, i)
  BY <1>1, EmptyLineIsNoEntry DEF EntryAt
<1>3. EntryStarts(g) = EntryStarts(f) \union {m} /\ m \notin EntryStarts(f)
  <2>1. m \notin EntryStarts(f) /\ m \in EntryStarts(g) /\ z \notin EntryStarts(g)
    BY <1>1, <1>2, ThreeParts DEF EntryStarts
  <2>2. \A i \in LineStarts(f) : i # m => (i \in EntryStarts(g) <=> i \in EntryStarts(f))
    BY <1>1, <1>2 DEF EntryStarts
  <2>3. EntryStarts(g) \subseteq LineStarts(f) \union {z} /\ EntryStarts(f) \subseteq LineStarts(f)
    BY <1>1 DEF EntryStarts
  <2> QED
    BY <2>1, <2>2, <2>3
<1>4. EntryAt(g, m)[1] = t /\ Tail(EntryAt(g, m)) = <<x, y>>
  BY <1>2, ThreeParts
<1>5. CASE u = t
  <2>1. m \in StartsOf(g, u)
    BY <1>3, <1>4, <1>5 DEF StartsOf
  <2>2. \A i \in StartsOf(g, u) : i <= m
    <3>1. EntryStarts(f) \subseteq LineStarts(f)
      BY DEF EntryStarts
    <3>2. m <= m
      BY StartsType, <1>1
    <3> QED
      BY <1>1, <1>3, <3>1, <3>2 DEF StartsOf
  <2>3. u \in DOMAIN Load(g) /\ Load(g)[u] = <<x, y>>
    BY <1>1, <1>4, <2>1, <2>2, StoreIs, ZenonT(60)
  <2> QED
    BY <1>1, <1>5, <2>3 DEF g
<1>6. CASE u # t
  <2>1. /\ StartsOf(g, u) = StartsOf(f, u)
        /\ \A i \in StartsOf(f, u) : EntryAt(g, i) = EntryAt(f, i)
    <3>1. m \notin StartsOf(g, u) /\ m \notin StartsOf(f, u)
      BY <1>3, <1>4, <1>6 DEF StartsOf
    <3>2. \A i \in EntryStarts(f) : i \in LineStarts(f) /\ i # m
      BY <1>3 DEF EntryStarts
    <3> QED
      BY <1>2, <1>3, <3>1, <3>2 DEF StartsOf
  <2>2. /\ u \in DOMAIN Load(g) <=> u \in DOMAIN Load(f)
        /\ u \in DOMAIN Load(f) => Load(g)[u] = Load(f)[u]
    BY <1>1, <2>1, SameStore
  <2> QED
    BY <1>1, <1>6, <2>2 DEF g
<1> QED
  BY <1>5, <1>6

-----------------------------------------------------------------------------
(* A set that has 0 and, with a number below l, the next one, has all      *)
(* numbers up to l.                                                        *)
LEMMA CountingUp ==
  ASSUME NEW l \in Nat, NEW Good, 0 \in Good,
         \A n \in 0 .. l : n # 0 /\ n - 1 \in Good => n \in Good
  PROVE  0 .. l \subseteq Good
<1> DEFINE Bad == {n \in 0 .. l : n \notin Good}
<1> SUFFICES ASSUME Bad # {} PROVE FALSE
  OBVIOUS
<1>1. PICK k \in Bad : \A j \in Bad : k <= j
  <2>1. Bad \in SUBSET Nat
    OBVIOUS
  <2> HIDE DEF Bad
  <2> QED
    BY <2>1, SmallestNumber
<1>2. k \in 0 .. l /\ k \notin Good /\ k # 0
  BY <1>1
<1>3. k - 1 \in 0 .. l /\ ~(k <= k - 1)
  BY <1>2
<1>4. k - 1 \in Good
  BY <1>1, <1>3
<1> QED
  BY <1>2, <1>4

(* One sequence after the other, up to the i-th.                           *)
Joint(seqs, f, i) == IF i = 1 THEN seqs[i] ELSE f[i - 1] \o seqs[i]

(* The recursion of FlattenSeq has a solution.                             *)
LEMMA JointExists ==
  ASSUME NEW seqs, NEW n \in Nat
  PROVE  \E f : f = [i \in 1 .. n |-> Joint(seqs, f, i)]
<1> DEFINE Solved(m) == \E f : f = [i \in 1 .. m |-> Joint(seqs, f, i)]
           Good == {m \in Nat : Solved(m)}
<1>1. 0 \in Good
  <2> DEFINE f == [i \in 1 .. 0 |-> 0]
  <2>1. f = [i \in 1 .. 0 |-> Joint(seqs, f, i)]
    <3>1. \A i \in 1 .. 0 : FALSE
      OBVIOUS
    <3> QED
      BY <3>1
  <2> HIDE DEF f
  <2> QED
    BY <2>1
<1>2. ASSUME NEW k \in 0 .. n, k # 0, k - 1 \in Good PROVE k \in Good
  <2>1. k \in Nat /\ k - 1 \in Nat /\ k \in 1 .. k
    BY <1>2
  <2>2. PICK f : f = [i \in 1 .. k - 1 |-> Joint(seqs, f, i)]
    BY <1>2
  <2> DEFINE g == [i \in 1 .. k |-> IF i = k THEN Joint(seqs, f, k) ELSE f[i]]
  <2>3. ASSUME NEW i \in 1 .. k PROVE g[i] = Joint(seqs, g, i)
    <3>1. i # 1 => i - 1 \in 1 .. k /\ i - 1 # k
      BY <2>1
    <3>2. i # 1 => g[i - 1] = f[i - 1]
      BY <3>1
    <3>3. Joint(seqs, g, i) = Joint(seqs, f, i)
      BY <3>2 DEF Joint
    <3>4. i # k => i \in 1 .. k - 1
      BY <2>1
    <3>5. i # k => g[i] = Joint(seqs, f, i)
      BY <2>2, <3>4
    <3> QED
      BY <3>3, <3>5
  <2>4. g = [i \in 1 .. k |-> Joint(seqs, g, i)]
    <3>1. g = [i \in 1 .. k |-> g[i]]
      OBVIOUS
    <3> HIDE DEF g
    <3> QED
      BY <2>3, <3>1
  <2> HIDE DEF g
  <2> QED
    BY <2>1, <2>4
<1> HIDE DEF Good
<1>3. 0 .. n \subseteq Good
  BY <1>1, <1>2, CountingUp
<1> QED
  BY <1>3 DEF Good

(* What FlattenSeq gives is the last of it.                                *)
LEMMA FlattenIs ==
  ASSUME NEW seqs, Len(seqs) \in Nat
  PROVE  /\ Len(seqs) = 0 => FlattenSeq(seqs) = seqs
         /\ \E f : /\ Len(seqs) # 0 => FlattenSeq(seqs) = f[Len(seqs)]
                   /\ \A i \in 1 .. Len(seqs) : f[i] = Joint(seqs, f, i)
<1> DEFINE n == Len(seqs)
           Solves(f) == f = [i \in 1 .. n |-> Joint(seqs, f, i)]
           f == CHOOSE f : Solves(f)
<1>1. \E g : Solves(g)
  BY JointExists
<1>2. Solves(f)
  <2> HIDE DEF Solves
  <2> QED
    BY <1>1, Zenon
<1>3. n = 0 => FlattenSeq(seqs) = seqs
  BY DEF FlattenSeq
<1>4. n # 0 => FlattenSeq(seqs) = f[n]
  BY Zenon DEF FlattenSeq, Joint
<1> HIDE DEF f
<1>5. \A i \in 1 .. n : f[i] = Joint(seqs, f, i)
  BY <1>2, Zenon
<1> QED
  BY <1>3, <1>4, <1>5, Zenon

(* The file --forget-host writes says of every host what it kept.          *)
LEMMA KeptIsReadBack ==
  ASSUME NEW kept, Readable(kept), NEW order \in SetToSeqs(DOMAIN kept)
  PROVE  LET words == KeptWords(kept, order)
         IN  /\ words \in Seq(Word)
             /\ \A t : /\ t \in DOMAIN Load(words) <=> t \in DOMAIN kept
                       /\ t \in DOMAIN kept => Load(words)[t] = kept[t]
<1> DEFINE hosts == DOMAIN kept
           n == Cardinality(hosts)
           line(t) == t \o <<Space>> \o kept[t][1] \o <<Space>> \o kept[t][2]
           pieces == [i \in 1 .. n |-> line(order[i]) \o <<Newline>>]
<1>1. IsFiniteSet(hosts) /\ n \in Nat
  BY FS_CardinalityType DEF Readable
<1>2. /\ order \in [1 .. n -> hosts] /\ \A i, j \in 1 .. n : i # j => order[i] # order[j]
      /\ Len(order) = n
  <2>1. order \in [1 .. n -> hosts] /\ \A i, j \in 1 .. n : i # j => order[i] # order[j]
    BY DEF SetToSeqs
  <2> HIDE DEF n, hosts
  <2> QED
    BY <1>1, <2>1
<1>3. \A t \in hosts : \E i \in 1 .. n : order[i] = t
  <2>1. order \in Injection(1 .. n, hosts)
    BY <1>2 DEF Injection, IsInjective
  <2>2. Cardinality(1 .. n) = n
    <3> HIDE DEF n
    <3>1. 1 \in Int /\ n \in Int /\ (1 > n => n = 0) /\ n - 1 + 1 = n
      BY <1>1
    <3> QED
      BY <3>1, FS_Interval
  <2>3. order \in Surjection(1 .. n, hosts)
    <3> HIDE DEF hosts
    <3> QED
      BY <1>1, <2>1, <2>2, FS_Injection DEF n
  <2> QED
    BY <2>3 DEF Surjection
<1>4. ASSUME NEW t \in hosts
      PROVE  /\ line(t) \in Seq(Word) /\ \A i \in 1 .. Len(line(t)) : line(t)[i] # Newline
             /\ \E x, y : kept[t] = <<x, y>> /\ EntryOf(line(t)) = <<t, x, y>>
  <2>1. PICK x, y : Host(t) /\ kept[t] = <<x, y>> /\ Algorithm(x) /\ Rest(y)
    BY DEF Readable
  <2>2. kept[t][1] = x /\ kept[t][2] = y
    BY <2>1
  <2>3. LET l == t \o <<Space>> \o x \o <<Space>> \o y
        IN  /\ l \in Seq(Word) /\ \A i \in 1 .. Len(l) : l[i] # Newline
            /\ EntryOf(l) = <<t, x, y>>
    BY <2>1, EntryIsReadBack
  <2>4. line(t) = t \o <<Space>> \o x \o <<Space>> \o y
    BY <2>2
  <2> HIDE DEF line
  <2> QED
    BY <2>1, <2>3, <2>4, Zenon
<1>5. KeptWords(kept, order) = FlattenSeq(pieces)
  BY <1>2 DEF KeptWords
<1> HIDE DEF line, hosts, n
<1>6. Len(pieces) = n
  BY <1>1
<1>7. PICK f : /\ n # 0 => FlattenSeq(pieces) = f[n]
               /\ \A i \in 1 .. n : f[i] = Joint(pieces, f, i)
  <2> HIDE DEF pieces
  <2> QED
    BY <1>1, <1>6, FlattenIs
<1> DEFINE told(i) == {order[j] : j \in 1 .. i}
           Fine(words, i) == /\ words \in Seq(Word) /\ (words = <<>> \/ words[Len(words)] = Newline)
                             /\ \A t : /\ t \in DOMAIN Load(words) <=> t \in told(i)
                                       /\ t \in told(i) => Load(words)[t] = kept[t]
           Good == {i \in 0 .. n : Fine(IF i = 0 THEN <<>> ELSE f[i], i)}
<1>8. 0 \in Good
  <2>1. 0 \in 0 .. n /\ told(0) = {} /\ <<>> \in Seq(Word)
    BY <1>1
  <2>2. DOMAIN Load(<<>>) = {}
    BY EmptyFile DEF Empty
  <2> HIDE DEF told
  <2> QED
    BY <2>1, <2>2
<1>9. ASSUME NEW i \in 0 .. n, i # 0, i - 1 \in Good PROVE i \in Good
  <2> DEFINE u == order[i]
             was == IF i - 1 = 0 THEN <<>> ELSE f[i - 1]
             new == was \o (line(u) \o <<Newline>>)
  <2>1. i \in 1 .. n /\ u \in hosts
    BY <1>1, <1>2, <1>9
  <2>2. Fine(was, i - 1)
    BY <1>9
  <2>3. PICK x, y : kept[u] = <<x, y>> /\ EntryOf(line(u)) = <<u, x, y>>
    BY <1>4, <2>1
  <2>4. line(u) \in Seq(Word) /\ \A j \in 1 .. Len(line(u)) : line(u)[j] # Newline
    BY <1>4, <2>1
  <2>5. f[i] = new
    <3>1. f[i] = Joint(pieces, f, i) /\ pieces[i] = line(u) \o <<Newline>>
      BY <1>7, <2>1
    <3>2. CASE i = 1
      <4>1. i - 1 = 0 /\ was = <<>>
        BY <3>2
      <4>2. <<Newline>> \in Seq(Word)
        BY DEF Word
      <4>3. line(u) \o <<Newline>> \in Seq(Word)
        BY <2>4, <4>2, ConcatProperties
      <4> QED
        BY <3>1, <3>2, <4>1, <4>3, ConcatEmptySeq DEF Joint
    <3>3. CASE i # 1
      <4>1. i - 1 # 0
        BY <2>1, <3>3
      <4> HIDE DEF pieces
      <4> QED
        BY <3>1, <3>3, <4>1 DEF Joint
    <3> QED
      BY <3>2, <3>3
  <2>6. told(i) = told(i - 1) \union {u}
    <3>1. \A j : j \in 1 .. i <=> j \in 1 .. i - 1 \/ j = i
      BY <2>1
    <3> QED
      BY <3>1
  <2> HIDE DEF u, was, told
  <2>7. ASSUME NEW t
        PROVE  /\ new \in Seq(Word) /\ new # <<>> /\ new[Len(new)] = Newline
               /\ t \in DOMAIN Load(new) <=> t = u \/ t \in DOMAIN Load(was)
               /\ t = u => Load(new)[t] = <<x, y>>
               /\ t # u /\ t \in DOMAIN Load(was) => Load(new)[t] = Load(was)[t]
    BY <2>2, <2>3, <2>4, EntryAppended, SMTT(30)
  <2> HIDE DEF new
  <2>8. Fine(new, i)
    BY <2>2, <2>3, <2>6, <2>7
  <2> QED
    BY <1>9, <2>5, <2>8
<1>10. Fine(IF n = 0 THEN <<>> ELSE f[n], n)
  <2> HIDE DEF Fine
  <2>1. n \in 0 .. n
    BY <1>1
  <2>2. 0 .. n \subseteq Good
    <3> HIDE DEF Good
    <3> QED
      BY <1>1, <1>8, <1>9, CountingUp
  <2> QED
    BY <2>1, <2>2
<1>11. told(n) = hosts
  BY <1>2, <1>3
<1>12. KeptWords(kept, order) = IF n = 0 THEN <<>> ELSE f[n]
  <2>1. CASE n = 0
    <3>1. FlattenSeq(pieces) = pieces
      <4> HIDE DEF pieces
      <4> QED
        BY <1>6, <2>1, FlattenIs
    <3>2. pieces = <<>>
      BY <2>1
    <3> QED
      BY <1>5, <2>1, <3>1, <3>2
  <2>2. CASE n # 0
    BY <1>5, <1>7, <2>2
  <2> QED
    BY <2>1, <2>2
<1> HIDE DEF told
<1> QED
  BY <1>10, <1>11, <1>12 DEF hosts

(* The file is empty when it is written anew, or it is smeared.            *)
LEMMA ForgetWritePins ==
  ASSUME TrustInv, Sound, ~smeared', ForgetWrite
  PROVE  Sound'
<1>1. PICK order \in SetToSeqs(DOMAIN forget.kept) :
        file' = KeptWords(forget.kept, order)
                  \o SubSeq(file, Len(KeptWords(forget.kept, order)) + 1, Len(file))
  BY DEF ForgetWrite
<1>2. /\ pins' = forget.pins /\ file = <<>> /\ attempt' = Disturbed(None, TRUE)
      /\ forget' = NotForgetting /\ accepted' = accepted /\ forget.phase = "cut"
  BY DEF ForgetWrite
<1> DEFINE words == KeptWords(forget.kept, order)
<1>3. /\ Readable(forget.kept) /\ forget.pins \in [Hosts -> Keys \union {None}]
      /\ \A h \in Hosts : Fits(forget.kept, h, forget.pins[h], accepted[h])
  BY <1>2 DEF Sound, Holds
<1>4. /\ words \in Seq(Word)
      /\ \A t : /\ t \in DOMAIN Load(words) <=> t \in DOMAIN forget.kept
                /\ t \in DOMAIN forget.kept => Load(words)[t] = forget.kept[t]
  BY <1>3, KeptIsReadBack
<1> HIDE DEF words
<1>5. file' = words
  <2>1. Len(words) \in Nat /\ Len(<<>>) = 0
    BY <1>4
  <2>2. SubSeq(file, Len(words) + 1, Len(file)) = <<>>
    BY <1>2, <2>1, SubSeqEmpty
  <2>3. words \o <<>> = words
    BY <1>4, ConcatEmptySeq
  <2> QED
    BY <1>1, <2>2, <2>3 DEF words
<1>6. Writers = {}
  <2> SUFFICES ASSUME NEW r \in Writers PROVE FALSE
    OBVIOUS
  <2>1. attempt[r].phase = "writing" /\ attempt[r].words > 0 /\ Stands(attempt[r], file)
    BY DEF Writers, Phase, Sound
  <2> QED
    BY <1>2, <2>1 DEF Stands
<1>7. \A r \in Attempts : Knows(attempt'[r], accepted) /\ Stands(attempt'[r], words)
  BY <1>2, <1>6, NobodyWrites
<1>8. \A h \in Hosts : Fits(Load(words), h, forget.pins[h], accepted[h])
  BY <1>3, <1>4 DEF Fits
<1>9. Holds(NotForgetting, accepted)
  BY DEF Holds, NotForgetting
<1>10. accepted \in [Hosts -> SUBSET Keys]
  BY DEF Sound
<1> QED
  BY <1>2, <1>3, <1>4, <1>5, <1>7, <1>8, <1>9, <1>10 DEF Sound

-----------------------------------------------------------------------------
(* Whatever an attempt or --forget-host does next.                         *)
LEMMA StepKeepsKeys == TrustInv /\ KeyInv /\ [Next]_vars => KeyInv'
<1> SUFFICES ASSUME TrustInv, KeyInv, [Next]_vars PROVE KeyInv'
  OBVIOUS
<1>1. smeared' \in BOOLEAN /\ (smeared => smeared')
  <2>1. UNCHANGED smeared \/ \E more \in BOOLEAN : smeared' = (smeared \/ more)
    <3>1. ASSUME NEW s \in Attempts, Step(s)
          PROVE  UNCHANGED smeared \/ \E more \in BOOLEAN : smeared' = (smeared \/ more)
      <4>1. CASE CheckServerKey(s)
        BY <4>1 DEF CheckServerKey, Decide, ghosts
      <4>2. CASE WriteWord(s)
        BY <4>2 DEF WriteWord, Smears, Spelled
      <4>3. CASE WriteFails(s)
        BY <4>3 DEF WriteFails, Smears
      <4> QED
        BY <3>1, <4>1, <4>2, <4>3 DEF Step, Connect, LogIn, Close, Kill, ghosts
    <3>2. ASSUME Forget
          PROVE  UNCHANGED smeared \/ \E more \in BOOLEAN : smeared' = (smeared \/ more)
      BY <3>2 DEF Forget, ForgetLoad, ForgetTruncate, ForgetWrite, ForgetKilled, ghosts
    <3>3. CASE UNCHANGED vars
      BY <3>3 DEF vars
    <3> QED
      BY <3>1, <3>2, <3>3 DEF Next
  <2> QED
    BY <2>1 DEF KeyInv
<1>2. ASSUME ~smeared' PROVE Sound'
  <2>1. Sound
    BY <1>1, <1>2 DEF KeyInv
  <2>2. ASSUME NEW s \in Attempts, Step(s) PROVE Sound'
    BY <1>2, <2>1, <2>2, ConnectPins, CheckPins, WritePins, FailurePins, LogInPins, StopPins DEF Step
  <2>3. CASE Forget
    BY <1>2, <2>1, <2>3, ForgetLoadPins, TruncatePins, ForgetWritePins, KilledPins DEF Forget
  <2>4. CASE UNCHANGED vars
    <3>1. UNCHANGED <<file, attempt, forget, accepted, pins>>
      BY <2>4 DEF vars
    <3> QED
      BY <2>1, <3>1 DEF Sound
  <2> QED
    BY <2>2, <2>3, <2>4 DEF Next
<1> QED
  BY <1>1, <1>2 DEF KeyInv

(* An empty file pins nothing.                                             *)
LEMMA KeysStart == Init => KeyInv
<1> SUFFICES ASSUME Init PROVE KeyInv
  OBVIOUS
<1>1. /\ file = <<>> /\ forget = NotForgetting /\ smeared = FALSE
      /\ accepted = [h \in Hosts |-> {}] /\ pins = [h \in Hosts |-> None]
      /\ \A s \in Attempts : attempt[s] = Idle
  BY DEF Init
<1>2. \A h \in Hosts : Fits(Load(file), h, pins[h], accepted[h])
  BY <1>1, EmptyFile DEF Fits, Empty
<1>3. Holds(forget, accepted)
  BY <1>1 DEF Holds, NotForgetting
<1>4. \A s \in Attempts : Knows(attempt[s], accepted) /\ Stands(attempt[s], file)
  BY <1>1, IdleHolds
<1>5. file \in Seq(Word) /\ pins \in [Hosts -> Keys \union {None}] /\ accepted \in [Hosts -> SUBSET Keys]
  BY <1>1
<1> QED
  BY <1>1, <1>2, <1>3, <1>4, <1>5 DEF KeyInv, Sound

(* Both invariants hold all the way.                                       *)
LEMMA KeysAreKept == Spec => [](TrustInv /\ KeyInv)
<1>1. Init => TrustInv
  BY IdleIsCautious DEF Init, TrustInv
<1> QED
  BY <1>1, KeysStart, StepKeepsTrust, StepKeepsKeys, PTL DEF Spec

(* Once an entry stands whole in the file, no attempt that loads it goes   *)
(* on with another key, under any policy, whatever is killed, fails in the *)
(* middle of a word or mixes its words with another attempt's, until the   *)
(* host is forgotten or the file is smeared: words are written beside an   *)
(* entry that another's newline cut in two or a rewrite fell into, or a    *)
(* piece of a name and another's name make a third.                        *)
THEOREM PinsAreKept == Spec => []PinnedKeysHold
<1>1. KeyInv => PinnedKeysHold
  BY DEF KeyInv, Sound, Knows, PinnedKeysHold, Phase, Trusting
<1> QED
  BY <1>1, KeysAreKept, PTL
=============================================================================
