SPECIFICATION Spec
CONSTANTS
  MaxSpeed = 2
  Increments = {1}
  Limits = {0, 1, 2, 3}
  Threshold = 2
  PreActive = 2
  Guard = 1
  Hold = 1
  MaxPresses = 2
  MaxChanges = 3
PROPERTIES LowLimitNeedsPress HeardConfirmationWorks Settles
