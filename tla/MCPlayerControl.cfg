CONSTANTS
  Players = {p1, p2}
  Commands = {"open", "close", "section", "swap", "play", "stop", "note", "realloc", "load", "loadSample", "zap", "dialog", "remap"}
SPECIFICATION Spec
INVARIANTS TypeOK EditSafe SongContinues AtRest SuspendedIsSilent MixerCallsFit
