CONSTANTS
  Size = 2
  MaxCommands = 5
  Room = TRUE
  Orders = {0, 1}
  Patterns = {2, 3}
  Quiet = TRUE
SPECIFICATION FairSpec
INVARIANTS TypeOK PlayedInOrder RequestKept SamePattern
PROPERTY EventuallyHeard
