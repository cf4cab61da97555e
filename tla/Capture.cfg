\* Damaged, cut and sound capture files, and every cut of every frame.
SPECIFICATION Spec
CONSTANTS
  None = None
  HeaderLimit = 60
  MaxJumps = 2
  MaxLabels = 3
  Files <- MCFiles
  MaxPacketBytes = 8
  MaxReadErrors = 2
  Limit = None
  DefaultTicks = 1000
  Nanos = 1000
CHECK_DEADLOCK FALSE  \* the file ends
INVARIANTS
  CutKeepsWholePackets
  TimesAreTheInterfaces
  PayloadIsTheSenders
  CutFrameAgrees
