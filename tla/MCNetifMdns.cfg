\* Room for two addresses, and interfaces with none to three of them.
CONSTANTS
  a = a
  b = b
  c = c
  Unspecified = Unspecified
  NetIfs = 2
  MaxAddrs = 2
  Conditions <- MCConditions
SPECIFICATION Spec
INVARIANTS TypeOK SettledReflects
PROPERTIES NoIdleTurn MdnsCatchesUp
