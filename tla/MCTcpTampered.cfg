\* Two directions and room for one; a second writer claims the same numbers.
SPECIFICATION Spec
CONSTANTS
  Limit = 5
  Byte <- MCByte
  Gap = Gap
  Key = {k1, k2}
  SeqSpace = 16
  MaxTrackedStreams = 1
  MaxRanges = 2
  Packets <- TamperedStreams
  MaxPackets = 6
  SynFirst = TRUE
  NoStream = NoStream
  Sent <- MCSent
CHECK_DEADLOCK FALSE  \* the capture ends
INVARIANTS
  BufferMatchesRanges
  LiveHeadIncomplete
  RecoveredOnce
PROPERTIES
  ImplementsStore
