\* An arena at an odd address, so that padding is needed everywhere. It has
\* room for two BLE phases of one run, and for the futures of a run with both
\* radios in most orders of allocation, but not in all. The program stops when
\* the arena is exhausted.
CONSTANTS
  N = 22
  Base = 1
  root = root
  btp = btp
  net = net
  im = im
  handler = handler
  unit = unit
  Tasks = {root, btp, net, im, handler, unit}
  Layout <- MCLayout
  Root = root
  Parent <- MCParent
  run = run
  coex = coex
  late = late
  Runs = {run, coex, late}
  Uses <- MCUses
  Rephased <- MCRephased
  NoRun = NoRun
SPECIFICATION Spec
INVARIANTS TypeOK Disjoint WithinUsed Aligned FreeWhenUnlocked
PROPERTIES ResetOnlyWhenUnused ImplementsArena
CHECK_DEADLOCK FALSE
