CONSTANTS
  h = h
  a1 = a1
  a2 = a2
  d1 = d1
  A = A
  B = B
  Struct <- Writer
  Deletes = {}
  Client = {A}
  Author <- WriterAuthor
  Past <- WriterPast
  Needs <- WriterPast
  Tab = {A}
  History = {}
  Seed <- SeededA
  MaxConn <- Stable
  Workers = 1
  MaxUp = 1
  Faulty = {"update", "ack"}
  Reloads = {}
  MaxLeave <- ALeaves
SPECIFICATION FairSpec
CHECK_DEADLOCK FALSE
PROPERTIES GapHeals
