SPECIFICATION Spec
CONSTANTS
  Invocations = {i1}
  None = None
  DrvSupported = TRUE
  HwSupported = FALSE
  MaxResets = 0
INVARIANT TailCallTableKept
CHECK_DEADLOCK FALSE
