SPECIFICATION ChainFairSpec
CONSTANTS
  PreRoll = 1
  Slots = {t1, t2}
  SpeechStart = 1
  BargeIn = 2
  SilenceEnd = 1
  MinSpoken = 3
  MaxSpoken = 3
  NoTask = NoTask
INVARIANTS BusyOwned
PROPERTIES UplinkInOrder HearsAgain
