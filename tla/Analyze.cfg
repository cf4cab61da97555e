\* Requests in segments, a query in fragments, a scan, ARP and DNS, in any order.
SPECIFICATION Spec
CONSTANTS
  None = None
  Private <- MCPrivate
  MaxSamples = 3
  MaxFlowNames = 2
  MaxFlowHosts = 2
  MaxFlowAgents = 2
  Lower <- MCLower
  parent_domain <- MCParent
  MaxSubdomains = 2
  MaxAnswers = 1
  MaxResolved = 1
  MaxCredentials = 1
  Rank <- MCRank
  LabelLength <- MCLabelLength
  Entropy <- MCEntropy
  MaxIndicators = 4
  MaxWarnings = 1
  Bits <- MCBits
  Normal <- MCNormal
  AfterDot <- MCAfterDot
  Config <- MCConfig
  Iocs <- MCIocs
  Packets <- AllPackets
  MaxPackets = 4
  Message <- MCMessage
  Datagrams <- MCDatagrams
  StreamLimit = 4
  MaxStreams = 4
  MaxStreamRanges = 2
  SeqSpace = 20
  DatagramLimit = 3
  MaxDatagrams = 1
  MaxFragmentRanges = 2
  Gap = Gap
CHECK_DEADLOCK FALSE  \* the capture ends
INVARIANTS
  ConversationsAddUp
  ClientIsOpener
  RecordedIsIndexed
  ScanIsExact
  ListedIsReported
PROPERTIES
  AlertsStay
