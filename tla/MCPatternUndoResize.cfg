CONSTANTS
  Patterns = {p1, p2}
  Entries = {v1, v2, v3}
  NULL = NULL
  Depth = 3
  HistorySize = 2
SPECIFICATION Spec
PROPERTY ChangeCanBeUndone
