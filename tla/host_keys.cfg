CONSTANTS
  Attempts = {s1, s2}
  h1 = h1
  h2 = h2
  Hosts = {h1, h2}
  Joins <- Spells
  Keys = {k1, k2}
  Policies = {"prompt", "tofu", "strict"}
  MaxIdentities = 1
  MaxConnects = 4
  MaxTroubles = 1
  MaxWords = 14
  MaxTroubledWords = 11
SPECIFICATION Spec
INVARIANTS PinnedKeysHold ShellNeedsTrust
CONSTRAINT SmallFile
SYMMETRY Symmetry
CHECK_DEADLOCK FALSE
