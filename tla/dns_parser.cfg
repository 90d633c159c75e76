SPECIFICATION Spec
CONSTANTS
  PatternLimit = 4
  LabelLimit = 3
  QnameLimit = 5
  HashStep <- MCHashStep
  HashBasis = 1
  SipWord = 2
  SipBlocks = 2
  Bytes = {0, 1, 2, 3, 4}
  CharOf <- MCCharOf
  LabelMax = 3
  EthHdr = 1
  MinIhl = 1
  IpWord = 1
  UdpHdr = 1
  DnsHdr = 1
  FrameLens = {0, 1, 2, 3, 8, 10, 16}
  Ihls = {0, 1, 2, 3}
  UdpLens = {1, 6, 7, 9, 12, 14}
INVARIANTS ReadsInBounds WritesInBounds AcceptedIsDecoded RefusedIsMalformed RouteHashAgrees
