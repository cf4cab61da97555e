\* Every order of insertions into a buffer of eight offsets.
SPECIFICATION ListSpec
CONSTANTS
  Limit = 8
  Byte = {}
  Gap = Gap
INVARIANTS
  SortedRuns
PROPERTIES
  ImplementsHeadBuffer
