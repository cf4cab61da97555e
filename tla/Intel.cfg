\* Two updates that may overlap or die, and an analysis that may run among them.
SPECIFICATION Spec
CONSTANTS
  None = None
  Missing = Missing
  Torn = Torn
  Updater = {u1, u2}
  MaxIndicators = 20
  MaxWarnings = 2
  Bits <- MCBits
  Normal <- MCNormal
  AfterDot <- MCAfterDot
  Requests <- MCRequests
  Answers <- MCAnswers
  auth_key = None
  MaxBytes = 2
  List <- MCList
  NewerCache <- MCNewerCache
  MaxUpdates = 2
  MaxFetches = 2
CHECK_DEADLOCK FALSE  \* everything has ended
INVARIANTS
  ManifestDescribesData
  NothingForgotten
  MatchNamesItsFeed
