\* The smallest instance in which the case happens: one window that replaces
\* another.
CONSTANTS
  MaxWindows = 2
  Nets = {n1}
  None = None
SPECIFICATION FairSpec
PROPERTY NewWindowHandsBack
