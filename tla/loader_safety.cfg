SPECIFICATION Spec
CONSTANTS
  Invocations = {i1, i2, i3}
  None = None
  DrvSupported = TRUE
  HwSupported = TRUE
  MaxResets = 0
SYMMETRY Symmetry
INVARIANTS TypeOK ActiveMapsSeeded FailedLoadInvisible CompletedLoadServes CleanUnload
PROPERTY SwapOnlySeeded
CHECK_DEADLOCK FALSE
