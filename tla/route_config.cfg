SPECIFICATION Spec
CONSTANTS
  Documents <- MCDocuments
  Programs <- MCPrograms
  AppName <- MCAppName
  AppDefault <- MCAppDefault
  Limit <- MCLimit
  MaxU32 = 70000
  MaxRoutes = 3
  MaxBlacklist = 2
  MaxSeeds = 2
  ProgArrayMax = 4
INVARIANTS TypeOK RoutesAreUsable OptionsApplyToRoutes RoutesAsWritten RefusedForCause TailTableAsConfigured
CHECK_DEADLOCK FALSE
