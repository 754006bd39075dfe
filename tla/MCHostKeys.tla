----------------------------- MODULE MCHostKeys -----------------------------
(* HostKeys for TLC: attempts and keys are interchangeable, and a piece in *)
(* front of the name of h2 spells that of h1.  Left out are what follows a *)
(* smeared file, of which PinnedKeysHold says nothing, files that are too  *)
(* long, and after a trouble the last of the connections.                  *)
EXTENDS HostKeys, TLC

CONSTANTS h1, h2,
          MaxWords,          \* bound: words in the file that are gone on from
          MaxTroubledWords   \* the same after a trouble

Spells == h2 :> h1

Symmetry == Permutations(Attempts) \union Permutations(Keys)
SmallFile ==
  /\ ~smeared /\ Len(file) <= MaxWords
  /\ troubles > 0 => Len(file) <= MaxTroubledWords /\ connects < MaxConnects
=============================================================================
