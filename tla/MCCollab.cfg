CONSTANTS
  h = h
  a1 = a1
  a2 = a2
  d1 = d1
  A = A
  B = B
  Struct <- Writer
  Deletes = {}
  Client = {A}
  Author <- WriterAuthor
  Past <- WriterPast
  Needs <- WriterPast
  Tab = {A}
  History = {h}
  Seed <- NoSeed
  MaxConn <- AReconnects
  Workers = 2
  MaxUp = 2
  Faulty = {"step2", "update", "ack"}
  Reloads = {A}
  MaxLeave <- NobodyLeaves
SPECIFICATION Spec
CHECK_DEADLOCK FALSE
INVARIANTS AckedIsDurable StoreGapFree
