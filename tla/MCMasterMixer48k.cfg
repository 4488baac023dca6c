\* 512 frames at 48 kHz: 10.67 ms, which the loop cuts down to 10
SPECIFICATION Spec
CONSTANTS


  Mixables = {p1, p2}
  NULL = NULL
  NumDevices = 2
  BufferFrames = 512
  SampleRate = 48000
  Prompt = FALSE
INVARIANT PauseTakesEffect
