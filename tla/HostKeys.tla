------------------------------ MODULE HostKeys ------------------------------
(***************************************************************************)
(* Connection attempts, ssh_engine/mod.rs and agent.rs, that share one     *)
(* known_hosts file, ssh_engine/known_hosts.rs, with each other and with   *)
(* `--forget-host`, main.rs.  Attempts are tabs of one process or windows  *)
(* of several; nothing locks the file.                                     *)
(*                                                                         *)
(* The file is a sequence of words as write! hands them over one by one:   *)
(* names of hosts and keys, the algorithm, spaces and newlines; and pieces *)
(* of words, which a write that fails half way leaves.  A host may offer   *)
(* any key at any time.                                                    *)
(***************************************************************************)
EXTENDS Integers, Sequences, FiniteSets, SequencesExt

CONSTANTS Attempts, Hosts, Keys,
          Policies,       \* subset of {"prompt", "tofu", "strict"}
          Joins,          \* the name that NamePiece and a name behind it spell, if any
          MaxIdentities,  \* bound: identities an agent offers
          MaxConnects,    \* bound: connection attempts
          MaxTroubles     \* bound: forgets, kills and failed writes

None == "none"
Space == "space"
Algo == "algo"
Newline == "newline"
NamePiece == "name piece"   \* what every host name begins with
WordPiece == "word piece"   \* what the algorithm and every key begin with

VARIABLES
  file,      \* the words in known_hosts
  attempt,   \* per attempt, see Idle
  forget,    \* the --forget-host process
  connects, troubles,  \* counters for the bounds
  accepted,  \* ghost: per host the keys some attempt decided to trust
  pins,      \* ghost: per host the key of its last entry, if that is whole
  smeared    \* ghost: words of an entry that was cut, or of one across a rewrite,
             \* mixed with another's, or a piece and a name that spell another name

vars == <<file, attempt, forget, connects, troubles, accepted, pins, smeared>>
counters == <<connects, troubles>>
ghosts   == <<accepted, pins, smeared>>

ASSUME NamesAssumption ==
  /\ Hosts \cap Keys = {}
  /\ (Hosts \union Keys) \cap {Space, Algo, Newline, NamePiece, WordPiece, None} = {}
ASSUME JoinsAssumption ==
  DOMAIN Joins \subseteq Hosts /\ \A h \in DOMAIN Joins : Joins[h] \in Hosts \ {h}

Empty == [h \in {} |-> None]

Idle == [phase |-> "idle", host |-> None, entries |-> Empty, offered |-> None, told |-> None, words |-> 0, whole |-> TRUE,
         cut |-> FALSE, pin |-> None, let_in |-> FALSE]

NotForgetting == [phase |-> "idle", host |-> None, kept |-> Empty, pins |-> Empty]

-----------------------------------------------------------------------------
(* KnownHostsStore::load: the last entry of a host counts.  A line of less *)
(* than three parts is skipped; the third part is the rest of the line.    *)

LineStarts(words) == {i \in 1 .. Len(words) + 1 : i = 1 \/ words[i - 1] = Newline}

(* The line that starts there, up to its newline or the end of the file.   *)
LineAt(words, i) ==
  LET newlines == {j \in i .. Len(words) : words[j] = Newline}
  IN  SubSeq(words, i, IF newlines = {} THEN Len(words) ELSE Min(newlines) - 1)

Ink(line)  == {i \in DOMAIN line : line[i] # Space}
(* The spaces that are left once the line is trimmed.                      *)
Gaps(line) == {i \in DOMAIN line \ Ink(line) : \E j, k \in Ink(line) : j < i /\ i < k}

(* <<host, algo, key>>, each the words it was put together from; or <<>>.  *)
EntryOf(line) ==
  LET gaps == Gaps(line)
      a == Min(gaps)
      b == Min(gaps \ {a})
  IN  IF \A i, j \in gaps : i = j THEN <<>>
      ELSE <<SubSeq(line, Min(Ink(line)), a - 1), SubSeq(line, a + 1, b - 1),
             SubSeq(line, b + 1, Max(Ink(line)))>>

EntryAt(words, i) == EntryOf(LineAt(words, i))

(* The lines that are entries, and those of a host.                        *)
EntryStarts(words)  == {i \in LineStarts(words) : EntryAt(words, i) # <<>>}
StartsOf(words, t)  == {i \in EntryStarts(words) : EntryAt(words, i)[1] = t}

(* The store: <<algo, key>> per host, the words it was read as.            *)
(* Mutant: the first entry of a host counts.                               *)
Load_First(words) ==
  [t \in {EntryAt(words, i)[1] : i \in EntryStarts(words)} |->
     Tail(EntryAt(words, Min(StartsOf(words, t))))]
Load(words) ==
  [t \in {EntryAt(words, i)[1] : i \in EntryStarts(words)} |->
     Tail(EntryAt(words, Max(StartsOf(words, t))))]

Check(entries, h, key) ==
  IF <<h>> \notin DOMAIN entries THEN "new"
  ELSE IF entries[<<h>>][2] = <<key>> THEN "matches"
  ELSE "mismatch"

(* The pieces writeln!(f, "{host_port} {algo} {b64}") writes.              *)
EntryWords(h, key) == <<h, Space, Algo, Space, key, Newline>>

-----------------------------------------------------------------------------
Set(s, a) == attempt' = [attempt EXCEPT ![s] = a]
Phase(s)  == attempt[s].phase

Writers == {s \in Attempts : Phase(s) = "writing" /\ attempt[s].words > 0}

(* SshSession::connect up to the key exchange: the store is loaded before  *)
(* the connection is made.                                                 *)
Connect(s) ==
  /\ Phase(s) = "idle" /\ connects < MaxConnects
  /\ \E h \in Hosts :
       Set(s, [Idle EXCEPT !.phase = "loaded", !.host = h,
                           !.entries = Load(file), !.pin = pins[h]])
  /\ connects' = connects + 1
  /\ UNCHANGED <<file, forget, troubles, ghosts>>

Decide(s, a) ==
  /\ Set(s, [a EXCEPT !.phase = "writing"])
  /\ accepted' = [accepted EXCEPT ![a.host] = @ \union {a.offered}]
  /\ UNCHANGED <<pins, smeared>>

(* check_server_key: a key that matches goes on, a changed one is refused  *)
(* under every policy, a new one is decided on.  The policy is read here   *)
(* only, the entries are not read again.  The wait for the user's answer   *)
(* is part of the wait before the key came or before the file is opened.   *)
Decision(policy, yes) ==
  policy = "tofu" \/ (policy = "prompt" /\ yes)

CheckServerKey(s) ==
  /\ Phase(s) = "loaded"
  /\ \E key \in Keys, policy \in Policies, yes \in BOOLEAN :
       LET verdict == Check(attempt[s].entries, attempt[s].host, key)
           a == [attempt[s] EXCEPT !.offered = key, !.told = verdict, !.entries = Empty]
       IN  CASE verdict = "matches" ->
                  Set(s, [a EXCEPT !.phase = "trusted"]) /\ UNCHANGED ghosts
             [] verdict = "new" /\ Decision(policy, yes) -> Decide(s, a)
             [] OTHER -> Set(s, Idle) /\ UNCHANGED ghosts
  /\ UNCHANGED <<file, forget, counters>>

-----------------------------------------------------------------------------
(* trust: the file is opened for append, then each word is a write of its  *)
(* own.                                                                    *)

AtLineStart == file = <<>> \/ file[Len(file)] = Newline

(* Writes of another change what stands of an entry: it is no longer whole *)
(* and, when they end the line, it is cut.                                 *)
Disturbed(s, ends) ==
  [r \in Attempts |->
     IF r # s /\ r \in Writers
     THEN [attempt[r] EXCEPT !.whole = FALSE, !.cut = @ \/ ends]
     ELSE attempt[r]]

LastWord == 6

(* A name behind a piece of a name may read as one word, a third name.     *)
Spelled(word) == file # <<>> /\ Last(file) = NamePiece /\ word \in DOMAIN Joins

Written(word) == IF Spelled(word) THEN Append(Front(file), Joins[word]) ELSE Append(file, word)

Smears(s) == \E r \in Writers \ {s} : attempt[r].cut

WriteWord(s) ==
  LET a == attempt[s]
      n == a.words + 1
      word  == EntryWords(a.host, a.offered)[n]
      whole == a.whole /\ (n = 1 => AtLineStart)
      b == [a EXCEPT !.words = n, !.whole = whole,
                     !.phase = IF n = LastWord THEN "trusted" ELSE "writing"]
  IN  /\ Phase(s) = "writing"
      /\ file' = Written(word)
      /\ attempt' = [Disturbed(s, word = Newline) EXCEPT ![s] = b]
      /\ pins' = IF word # a.offered THEN pins
                 ELSE [pins EXCEPT ![a.host] = IF whole THEN a.offered ELSE None]
      /\ smeared' = (smeared \/ Smears(s) \/ Spelled(word))
      /\ UNCHANGED <<forget, counters, accepted>>

(* A write fails, and the key is refused; the words before it stay, and    *)
(* of its own word a piece may.                                            *)
(* Mutant: the attempt goes on with a key it could not persist.            *)
AfterFailedWrite_GoesOn(a) == [a EXCEPT !.phase = "trusted"]
AfterFailedWrite(a) == Idle

PieceOf(n) == IF n = 1 THEN NamePiece ELSE WordPiece

WriteFails(s) ==
  /\ Phase(s) = "writing" /\ troubles < MaxTroubles
  /\ LET n == attempt[s].words + 1
     IN  \/ /\ Set(s, AfterFailedWrite(attempt[s]))
            /\ UNCHANGED <<file, smeared>>
         \/ /\ n \in {1, 3, 5}
            /\ file' = Append(file, PieceOf(n))
            /\ attempt' = [Disturbed(s, FALSE) EXCEPT ![s] = AfterFailedWrite(@)]
            /\ smeared' = (smeared \/ Smears(s))
  /\ troubles' = troubles + 1
  /\ UNCHANGED <<forget, connects, accepted, pins>>

-----------------------------------------------------------------------------
(* The rest of SshSession::connect.  try_all_identities goes through the   *)
(* agent's identities until one is accepted; one that cannot sign counts   *)
(* as rejected.  A password or a key file is one try.                      *)

Authenticated(answers) == "accepted" \in ToSet(answers)

(* Channel, PTY and shell are opened, or one of them fails.                *)
LogIn(s) ==
  /\ Phase(s) = "trusted"
  /\ \E answers \in BoundedSeq({"accepted", "rejected"}, MaxIdentities), opened \in BOOLEAN :
       Set(s, IF Authenticated(answers) /\ opened
              THEN [attempt[s] EXCEPT !.phase = "up", !.let_in = "accepted" \in ToSet(answers)]
              ELSE Idle)
  /\ UNCHANGED <<file, forget, counters, ghosts>>

Close(s) ==
  /\ Phase(s) = "up"
  /\ Set(s, Idle)
  /\ UNCHANGED <<file, forget, counters, ghosts>>

(* The process dies; what it wrote of an entry stays.                      *)
Kill(s) ==
  /\ Phase(s) = "writing" /\ troubles < MaxTroubles
  /\ Set(s, Idle)
  /\ troubles' = troubles + 1
  /\ UNCHANGED <<file, forget, connects, ghosts>>

-----------------------------------------------------------------------------
(* --forget-host: load, remove, and if the host was there write the file   *)
(* anew: fs::write cuts it to nothing and then writes.                     *)

ForgetLoad ==
  /\ forget.phase = "idle" /\ troubles < MaxTroubles
  /\ \E h \in Hosts :
       LET loaded == Load(file)
           kept   == [t \in DOMAIN loaded \ {<<h>>} |-> loaded[t]]
       IN  forget' = IF <<h>> \notin DOMAIN loaded THEN NotForgetting
                     ELSE [phase |-> "loaded", host |-> h, kept |-> kept,
                           pins |-> [pins EXCEPT ![h] = None]]
  /\ troubles' = troubles + 1
  /\ UNCHANGED <<file, attempt, connects, ghosts>>

ForgetTruncate ==
  /\ forget.phase = "loaded"
  /\ file' = <<>>
  /\ forget' = [forget EXCEPT !.phase = "cut"]
  /\ attempt' = Disturbed(None, TRUE)
  /\ pins' = [h \in Hosts |-> None]
  /\ smeared' = (smeared \/ Writers # {})
  /\ UNCHANGED <<counters, accepted>>

(* The entries in the order of the hash map, which is any order.           *)
KeptWords(entries, order) ==
  FlattenSeq([i \in 1 .. Len(order) |->
    order[i] \o <<Space>> \o entries[order[i]][1] \o <<Space>> \o entries[order[i]][2]
      \o <<Newline>>])

(* Words appended since the cut are written over, those after the end of   *)
(* what is written stay.                                                   *)
ForgetWrite ==
  /\ forget.phase = "cut"
  /\ \E order \in SetToSeqs(DOMAIN forget.kept) :
       LET new == KeptWords(forget.kept, order)
       IN  file' = new \o SubSeq(file, Len(new) + 1, Len(file))
  /\ pins' = IF file = <<>> THEN forget.pins ELSE [h \in Hosts |-> None]
  /\ smeared' = (smeared \/ file # <<>>)
  /\ attempt' = Disturbed(None, TRUE)
  /\ forget' = NotForgetting
  /\ UNCHANGED <<counters, accepted>>

ForgetKilled ==
  /\ forget.phase = "cut"
  /\ forget' = NotForgetting
  /\ UNCHANGED <<file, attempt, counters, ghosts>>

-----------------------------------------------------------------------------
Init ==
  /\ file = <<>>
  /\ attempt = [s \in Attempts |-> Idle]
  /\ forget = NotForgetting
  /\ connects = 0 /\ troubles = 0
  /\ accepted = [h \in Hosts |-> {}]
  /\ pins = [h \in Hosts |-> None]
  /\ smeared = FALSE

Step(s) ==
  \/ Connect(s) \/ CheckServerKey(s) \/ WriteWord(s) \/ WriteFails(s)
  \/ LogIn(s) \/ Close(s) \/ Kill(s)

Forget == ForgetLoad \/ ForgetTruncate \/ ForgetWrite \/ ForgetKilled

Next == (\E s \in Attempts : Step(s)) \/ Forget

Spec == Init /\ [][Next]_vars

-----------------------------------------------------------------------------
Trusting == {"trusted", "up"}

(* Once an entry stands whole in the file, no attempt that loads it goes   *)
(* on with another key, under any policy, until its host is forgotten      *)
(* (known_hosts.rs, trust model), whatever other entries are torn by kills *)
(* and failed writes and mixed with one another; but only until the file   *)
(* is smeared: words are written beside an entry that another's newline    *)
(* cut in two or a rewrite fell into, or a piece of a name and another's   *)
(* name make a third.                                                      *)
PinnedKeysHold ==
  \A s \in Attempts :
    Phase(s) \in Trusting /\ attempt[s].pin # None /\ ~smeared
      => attempt[s].offered = attempt[s].pin

(* A host whose key is silently accepted is one whose key was accepted     *)
(* before (known_hosts.rs:10-11).  It does not hold: a piece of a name, or *)
(* words of a cut entry, make an entry for a host that nobody trusted.     *)
MatchesWereAccepted ==
  \A s \in Attempts :
    attempt[s].told = "matches" => attempt[s].offered \in accepted[attempt[s].host]

(* A shell is only opened when the server let the user in and its key was  *)
(* in the store, or was decided on and written to the last word: a write   *)
(* that fails refuses the key ("fail closed").                             *)
ShellNeedsTrust ==
  \A s \in Attempts :
    Phase(s) = "up" =>
      /\ attempt[s].let_in
      /\ \/ attempt[s].told = "matches"
         \/ attempt[s].told = "new" /\ attempt[s].words = 6

(* An entry that trust reported as written is found by the next load       *)
(* ("durable, crash-safe": known_hosts.rs:118-120).                        *)
TrustedIsRemembered ==
  \A s \in Attempts :
    Phase(s) \in Trusting /\ attempt[s].told = "new"
      => <<attempt[s].host>> \in DOMAIN Load(file)
=============================================================================
