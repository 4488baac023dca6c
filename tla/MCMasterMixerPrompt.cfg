\* callbacks come within the wait of one buffer; 512 frames at 44.1 kHz
SPECIFICATION FairSpec
CONSTANTS


  Mixables = {p1, p2}
  NULL = NULL
  NumDevices = 2
  BufferFrames = 512
  SampleRate = 44100
  Prompt = TRUE
INVARIANTS TypeOK NoNullCall RegisteredOnce NoStaleRequest
PROPERTIES ContractSpec LivePlayerIsHeard
