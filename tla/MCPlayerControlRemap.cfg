CONSTANTS
  Players = {p1}
  Commands = {"open", "play", "remap"}
SPECIFICATION Spec
INVARIANT MoveSafe
