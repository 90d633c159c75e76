SPECIFICATION Spec
CONSTANTS
  Cpus = {c1, c2}
  Loaded <- RateLoaded
  Packets <- RatePackets
  RouteHash <- MCRouteHash
  Mix <- MCMix
  LeadingZeros <- MCLeadingZeros
  BootEpoch = 1000
  MaxSec = 1
  PatternLimit = 128
  LabelLimit = 32
  QnameLimit = 255
SYMMETRY Symmetry
INVARIANTS TypeOK RateBound NoEarlyRateDrop
