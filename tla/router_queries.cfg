SPECIFICATION Spec
CONSTANTS
  Cpus = {c1}
  Loaded <- QueryLoaded
  Packets <- QueryPackets
  RouteHash <- MCRouteHash
  Mix <- MCMix
  LeadingZeros <- MCLeadingZeros
  BootEpoch = 1000
  MaxSec = 5
  PatternLimit = 4
  LabelLimit = 4
  QnameLimit = 6
INVARIANTS ExactBeatsFallback SubdomainsRouted PowTokenHonoured SeededNamesPass
PROPERTIES PowTokenExpires BudgetOnlyForEligible
