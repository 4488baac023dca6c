SPECIFICATION FairSpec
CONSTANTS
  Channels = 2
  Orders = 2
  Patterns = {0, 1}
  TickSpeed = 2
  Commands = {}
  StartRows = {0}
  MaxPlays = 1
  MaxEffects = 0
  EditSongs = {}
  ExportSongs <- HangingSongs
PROPERTIES SongHalts
CHECK_DEADLOCK FALSE
