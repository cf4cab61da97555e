\* Two honest directions that stay open: every loss, repetition and reordering.
SPECIFICATION CompletenessSpec
CONSTANTS
  Limit = 8
  Byte <- MCByte
  Gap = Gap
  Key = {k1, k2}
  SeqSpace = 20
  MaxTrackedStreams = 2
  MaxRanges = 4
  Packets <- OpenStream
  MaxPackets = 6
  SynFirst = TRUE
  NoStream = NoStream
  Sent <- MCSent
  FirstMessage <- MCFirstMessage
CHECK_DEADLOCK FALSE  \* the capture ends
INVARIANTS
  Integrity
  EmittedIsSent
  NoFalseConflict
  NoMissedMessage
