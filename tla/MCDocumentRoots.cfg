SPECIFICATION RootsSpec
CONSTANTS
  Root = Root
  Block = {n1, n2, n3}
  MaxUnits = 5
  MaxIndex = 2
  RuleSets <- MCRuleSets
  Fragment = Fragment
  Element = {n1, n2, n3}
  MarkSets <- MCMarkSets
  PmRuleSets <- MCPmRuleSets
  MaxNodes = 4
  MaxMarked = 3
  MaxText = 4
  CaretIndex <- MCCaretIndex
  Key = {1, 2}
  Values <- MCValues
  MAX_NESTING = 2
  MaxShared = 4
  MaxItems = 3
  HandleIndex <- MCHandleIndex
  Thread = {t1, t2, t3}
  Pool = {t1, t2}
  Edit = {n1, n2, n3}
  MaxWrite = 2
  None = None
SYMMETRY MCSymmetry
INVARIANTS
  EditsAsRuby
  TagsNest
  TextIsShownOnce
  MarksAreWorn
  PmShownInOrder
  CaretsKeepTheirPlace
  ReadsAsRuby
  NoWriteLost
  NothingTwice
  NoGaps
PROPERTIES
  ChangesAreReported
  HandlesKeepTheirValue
CHECK_DEADLOCK FALSE
