SPECIFICATION FairSpec
CONSTANTS
  Channels = 2
  Orders = 2
  Patterns = {0, 1}
  TickSpeed = 1
  Commands = {"play", "stop", "move", "speed", "queue", "edit"}
  StartRows = {1}
  MaxPlays = 4
  MaxEffects = 2
  EditSongs <- ChangedSongs
  ExportSongs <- TameSongs
INVARIANTS TypeOK LoopsOfPosition PlayedAsWritten
PROPERTIES RowInPattern PositionInSong QueuedOrderPlayed SongHalts
CHECK_DEADLOCK FALSE
