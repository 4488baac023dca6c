\* callbacks may come late: the wait of pauseDevice and removeDevice can expire
SPECIFICATION EditorFairSpec
CONSTANTS


  Mixables = {p1, p2}
  NULL = NULL
  NumDevices = 2
  BufferFrames = 512
  SampleRate = 44100
  Prompt = FALSE
INVARIANTS AnsweredMeansSilent BufferWhileMixing PauseTakesEffect
PROPERTY CallReturns
