\* Two honest datagrams, one somebody meddles with, and room for two.
SPECIFICATION Spec
CONSTANTS
  Limit = 6
  Byte <- MCByte
  Gap = Gap
  cut = k1
  halved = k2
  forged = k3
  Key = {k1, k2, k3}
  MaxTrackedDatagrams = 2
  MaxRanges = 2
  Fragments <- MCFragments
  MaxFragments = 7
  NoDatagram = NoDatagram
  Sent <- MCSent
CHECK_DEADLOCK FALSE  \* the capture ends
INVARIANTS
  EmittedIsSent
  NoFalseConflict
  ReassembledOnce
  BufferMatchesRanges
PROPERTIES
  FirstWriterWins
  ImplementsStore
