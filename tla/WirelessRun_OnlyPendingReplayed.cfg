\* The smallest instance in which the case happens.
CONSTANTS
  MaxWindows = 2
  Nets = {n1}
  None = None
SPECIFICATION Spec
INVARIANT OnlyPendingReplayed
