----------------------------- MODULE SshConfig ------------------------------
(***************************************************************************)
(* The importer of OpenSSH configuration files,                            *)
(* config/ssh_config_import.rs.                                            *)
(*                                                                         *)
(* A file is a sequence of lines [key, words], blank lines and comments    *)
(* left out.  For "host" and "match" the words are the tokens of the       *)
(* value, for "match" with the comma-separated second one already split:   *)
(* words[1] is the criterion and the rest its patterns.  For a directive   *)
(* they are its value.  A pattern is [negated, glob], a glob and a name    *)
(* sequences of characters.                                                *)
(***************************************************************************)
EXTENDS Integers, Sequences, SequencesExt

None    == <<>>   \* of an Option
Some(v) == <<v>>

Pattern(chars) == [negated : BOOLEAN, glob : Seq(chars)]

(* Where a line has patterns, they are patterns.                           *)
IsLine(line, chars) ==
  /\ line.key = "host" => line.words \in Seq(Pattern(chars))
  /\ line.key = "match" /\ Len(line.words) = 2 /\ line.words[1] \in {"host", "user"} =>
       line.words[2] \in Seq(Pattern(chars))

-----------------------------------------------------------------------------
(* Patterns.                                                               *)

(* glob_match_rec: m[<<i, j>>] says that the rest of the glob from i       *)
(* matches the rest of the name from j.                                    *)
Rests(glob, name) == (1 .. Len(glob) + 1) \X (1 .. Len(name) + 1)

GlobMatch(glob, name) ==
  LET m[p \in Rests(glob, name)] ==
        LET i == p[1]
            j == p[2]
        IN  IF i > Len(glob) THEN j > Len(name)
            ELSE IF glob[i] = "*"
            THEN m[<<i + 1, j>>] \/ (j <= Len(name) /\ m[<<i, j + 1>>])
            ELSE /\ j <= Len(name)
                 /\ glob[i] \in {"?", name[j]}
                 /\ m[<<i + 1, j + 1>>]
  IN  m[<<1, 1>>]

(* Mutant: a negated pattern is only not a match.                          *)
PatternsMatch_Positive(patterns, name) ==
  \E i \in DOMAIN patterns : ~patterns[i].negated /\ GlobMatch(patterns[i].glob, name)
(* A negated pattern that matches decides, wherever it stands.             *)
PatternsMatch(patterns, name) ==
  /\ \A i \in DOMAIN patterns : patterns[i].negated => ~GlobMatch(patterns[i].glob, name)
  /\ \E i \in DOMAIN patterns : ~patterns[i].negated /\ GlobMatch(patterns[i].glob, name)

-----------------------------------------------------------------------------
(* parse_blocks: directives before the first Host or Match are dropped.    *)

Criteria(line) ==
  IF line.key = "host" THEN [of |-> "host", patterns |-> line.words]
  ELSE IF line.words = <<"all">> THEN [of |-> "all", patterns |-> <<>>]
  ELSE IF Len(line.words) = 2 /\ line.words[1] \in {"host", "user"}
  THEN [of |-> line.words[1], patterns |-> line.words[2]]
  ELSE [of |-> "unsupported", patterns |-> <<>>]

ReadLine(blocks, line) ==
  IF line.key \in {"host", "match"}
  THEN Append(blocks, [criteria |-> Criteria(line), directives |-> <<>>])
  ELSE IF blocks = <<>> THEN blocks
  ELSE [blocks EXCEPT ![Len(blocks)].directives =
          Append(@, [key |-> line.key, value |-> line.words])]

(* The blocks of the first lines.                                          *)
BlocksRead(file) ==
  LET after[n \in 0 .. Len(file)] ==
        IF n = 0 THEN <<>> ELSE ReadLine(after[n - 1], file[n])
  IN  after

ParseBlocks(file) == BlocksRead(file)[Len(file)]

CriteriaMatch(criteria, alias, user) ==
  CASE criteria.of = "host" -> PatternsMatch(criteria.patterns, alias)
    [] criteria.of = "user" -> PatternsMatch(criteria.patterns, user)
    [] OTHER                -> criteria.of = "all"

-----------------------------------------------------------------------------
(* import                                                                  *)

IsLiteral(p) == ~p.negated /\ \A i \in DOMAIN p.glob : p.glob[i] \notin {"*", "?"}

HostPatterns(block) ==
  IF block.criteria.of = "host" THEN block.criteria.patterns ELSE <<>>

(* The names offered as profiles, in order, each once.                     *)
AliasOrder(blocks) ==
  LET pats == FlattenSeq([i \in 1 .. Len(blocks) |-> HostPatterns(blocks[i])])
      Step(aliases, p) ==
        IF IsLiteral(p) /\ p.glob \notin ToSet(aliases) THEN Append(aliases, p.glob) ELSE aliases
      after[n \in 0 .. Len(pats)] == IF n = 0 THEN <<>> ELSE Step(after[n - 1], pats[n])
  IN  after[Len(pats)]

(* lookup: the first block that matches and sets the key, the first value  *)
(* it gives.                                                               *)
SetIn(block, key) == {d \in 1 .. Len(block.directives) : block.directives[d].key = key}

SetFor(blocks, alias, user, key) ==
  {b \in 1 .. Len(blocks) :
     CriteriaMatch(blocks[b].criteria, alias, user) /\ SetIn(blocks[b], key) # {}}

Lookup(blocks, alias, user, key) ==
  LET hits  == SetFor(blocks, alias, user, key)
      block == blocks[Min(hits)]
  IN  IF hits = {} THEN None ELSE Some(block.directives[Min(SetIn(block, key))].value)

(* resolve_profile; a port that is no number gives 22.                     *)
OrElse(option, default) == IF option = None THEN default ELSE option[1]

NoNumber == {<<>>, <<"no number">>}
PortOf(option) == IF OrElse(option, <<>>) \in NoNumber THEN <<"22">> ELSE option[1]
AuthOf(option) == IF option = None THEN <<"agent">> ELSE <<"key", option[1]>>

Settings == {"hostname", "user", "port", "identityfile"}

Profile(got, alias, user) ==
  [name     |-> alias,
   host     |-> OrElse(got["hostname"], alias),
   username |-> OrElse(got["user"], user),
   port     |-> PortOf(got["port"]),
   auth     |-> AuthOf(got["identityfile"])]

ResolveProfile(blocks, alias, user) ==
  Profile([key \in Settings |-> Lookup(blocks, alias, user, key)], alias, user)

Import(file, user) ==
  LET blocks  == ParseBlocks(file)
      aliases == AliasOrder(blocks)
  IN  [i \in 1 .. Len(aliases) |-> ResolveProfile(blocks, aliases[i], user)]

-----------------------------------------------------------------------------
(* What OpenSSH does: one pass over the lines, each applied while the last *)
(* Host or Match line matched, a value kept once it is set.  A glob        *)
(* matches when its characters can be laid over the name, each `*` over a  *)
(* stretch of any length.                                                  *)

Covers(glob, name) ==
  \E start \in [1 .. Len(glob) + 1 -> 1 .. Len(name) + 1] :
    /\ start[1] = 1 /\ start[Len(glob) + 1] = Len(name) + 1
    /\ \A i \in 1 .. Len(glob) :
         IF glob[i] = "*" THEN start[i] <= start[i + 1]
         ELSE /\ start[i + 1] = start[i] + 1
              /\ glob[i] \in {"?", name[start[i]]}

Applies(line, alias, user) ==
  LET c == Criteria(line)
      name == IF c.of = "user" THEN user ELSE alias
      Hit(p) == Covers(p.glob, name)
  IN  \/ c.of = "all"
      \/ /\ c.of \in {"host", "user"}
         /\ \E p \in ToSet(c.patterns) : ~p.negated /\ Hit(p)
         /\ \A p \in ToSet(c.patterns) : p.negated => ~Hit(p)

PassLine(acc, line, alias, user, key) ==
  IF line.key \in {"host", "match"}
  THEN [acc EXCEPT !.on = Applies(line, alias, user)]
  ELSE IF acc.on /\ line.key = key /\ acc.value = None
  THEN [acc EXCEPT !.value = Some(line.words)]
  ELSE acc

Passed(file, alias, user, key) ==
  LET after[n \in 0 .. Len(file)] ==
        IF n = 0 THEN [on |-> FALSE, value |-> None]
        ELSE PassLine(after[n - 1], file[n], alias, user, key)
  IN  after

OnePass(file, alias, user, key) == Passed(file, alias, user, key)[Len(file)].value

(* Each profile has the values one pass gives for its name, "first         *)
(* obtained value wins".                                                   *)
ImportIsOnePass(file, user) ==
  \A p \in ToSet(Import(file, user)) :
    p = Profile([key \in Settings |-> OnePass(file, p.name, user, key)], p.name, user)
=============================================================================
