CONSTANTS
  h = h
  a1 = a1
  a2 = a2
  d1 = d1
  A = A
  B = B
  Struct <- Pair
  Deletes = {d1}
  Client = {A, B}
  Author <- PairAuthor
  Past <- PairPast
  Needs <- PairPast
  Tab = {A, B}
  History = {h}
  Seed <- NoSeed
  MaxConn <- Stable
  Workers = 2
  MaxUp = 1
  Faulty = {"ack"}
  Reloads = {}
  MaxLeave <- NobodyLeaves
SPECIFICATION FairSpec
CHECK_DEADLOCK FALSE
INVARIANTS SeenIsDurable SyncedHasLoaded SyncedMissesNothing
PROPERTIES Converges
