SPECIFICATION FairSpec
CONSTANTS
  Invocations = {i1, i2}
  None = None
  DrvSupported = FALSE
  HwSupported = FALSE
  MaxResets = 1
INVARIANTS CompletedLoadServes CleanUnload
PROPERTIES EveryInvocationReturns ImplementsAtomicSwap
CHECK_DEADLOCK FALSE
