SPECIFICATION Spec
CONSTANTS
  W = 8
  Addresses <- MCAddresses
  Ports = {0, 1, 7}
  Rests = {1, 4, 7}
INVARIANTS GoodStaysGood BadStaysBad
CHECK_DEADLOCK FALSE
