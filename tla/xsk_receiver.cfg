SPECIFICATION Spec
CONSTANTS
  NumFrames = 6
  FillSize = 6
  RxSize = 4
  BatchSize = 3
INVARIANTS FramesConserved ReserveNeverSpins SocketHasMemory
PROPERTIES StopExits DeliveredIsHandled
CHECK_DEADLOCK FALSE
