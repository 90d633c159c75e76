SPECIFICATION Spec
CONSTANTS
  Cpus = {c1}
  Loaded <- WindowLoaded
  Packets <- RatePackets
  RouteHash <- MCRouteHash
  Mix <- MCMix
  LeadingZeros <- MCLeadingZeros
  BootEpoch = 1000
  MaxSec = 2
  PatternLimit = 128
  LabelLimit = 32
  QnameLimit = 255
INVARIANT BloomSeedsValid
