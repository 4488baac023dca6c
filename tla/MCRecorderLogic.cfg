SPECIFICATION Spec
CONSTANTS
  Modules = {m1, m2, m3}
  MaxTabs = 3
  Behaviours = {"none", "onSwitch", "onPlayback"}
  Keyboard = {1}
  Midi = {1}
  NewOctave = 5
  MidiOctave = 4
  Setups <- MCSetups
  TableSize = 2
  MaxQueue = 1
  Habits = {}
SYMMETRY Alike
INVARIANTS TypeOK TabsAgree CurrentNotPaused NoHangingNote
