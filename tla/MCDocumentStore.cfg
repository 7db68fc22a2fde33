CONSTANTS
  a1 = a1
  a2 = a2
  a3 = a3
  d1 = d1
  A = A
  B = B
  Struct <- MCStruct
  Deletes <- MCDeletes
  Client = {A, B}
  Author <- MCAuthor
  Past <- MCPast
  Needs <- MCNeeds
  Payload <- MCPayload
  Proc = {p1, p2}
  RowId = {1, 2, 3}
  CompactEvery = 2
  Interrupted = {p2}
  Nobody = Nobody
SPECIFICATION Spec

INVARIANTS TailBounded HiddenGapsAdvance
PROPERTIES DeletedIsCaptured ImplementsDurableDoc
