\* One TLS hello in two segments.
SPECIFICATION Spec
CONSTANTS
  None = None
  Private <- MCPrivate
  MaxSamples = 3
  MaxFlowNames = 2
  MaxFlowHosts = 2
  MaxFlowAgents = 2
  Lower <- MCLower
  parent_domain <- MCParent
  MaxSubdomains = 2
  MaxAnswers = 1
  MaxResolved = 1
  MaxCredentials = 1
  Rank <- MCRank
  LabelLength <- MCLabelLength
  Entropy <- MCEntropy
  MaxIndicators = 4
  MaxWarnings = 1
  Bits <- MCBits
  Normal <- MCNormal
  AfterDot <- MCAfterDot
  Config <- MCConfig
  Iocs <- MCIocs
  Packets <- TlsPackets
  MaxPackets = 4
  Message <- MCMessage
  Datagrams <- MCDatagrams
  StreamLimit = 4
  MaxStreams = 4
  MaxStreamRanges = 2
  SeqSpace = 20
  DatagramLimit = 3
  MaxDatagrams = 1
  MaxFragmentRanges = 2
  Gap = Gap
CHECK_DEADLOCK FALSE  \* the capture ends
INVARIANT
  CountedOnce
