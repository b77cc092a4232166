SPECIFICATION StoreSpec
CONSTANTS
  Sessions = {s1, s2}
  Nodes = {n1, n2, n3}
  Seqs = {0, 1}
  MaxEntries = 2
  MaxTick = 3
  NoSession = NoSession
SYMMETRY Symmetry
INVARIANT NoReplay
CHECK_DEADLOCK FALSE
