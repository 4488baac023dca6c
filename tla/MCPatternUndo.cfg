CONSTANTS
  Patterns = {p1, p2, p3}
  Entries = {v1, v2}
  NULL = NULL
  Depth = 3
  HistorySize = 2
SYMMETRY Interchangeable
VIEW ValidView
SPECIFICATION Spec
INVARIANTS TypeOK StacksAgree OneStackEach
PROPERTY HistorySpec
