\* An interface that delivers for ever, or ends; the first three packets are
\* counted.  A buffer that spills in mid-record, a disk that fills and has room
\* again, Ctrl-C and kills.
SPECIFICATION BusySpec
CONSTANTS
  MaxPackets = 3
  BufCap = 3
  RecordWrites = 2
CHECK_DEADLOCK FALSE  \* the command exits or is killed
INVARIANTS
  PublishedIsOnDisk
  FileHoldsEveryPacket
  CleanExitLosesNothing
PROPERTIES
  ShutdownCompletes
  CapturedIsPublished
