SPECIFICATION CalmSpec
CONSTANTS
  Proc = {p, q}
  Hashes = {1, 2, 5}
  Id = {1, 2, 5}
  FP <- MCFP
  First <- MCFirst
  Alt <- MCAlt
  Rehash <- MCRehash
  SLOTS = 1
  KICKS = 2
  Width = 4
  MaxWidth = 8
SYMMETRY Threads
INVARIANTS
  NothingLost
  InBounds
  DefinitelyAbsent
