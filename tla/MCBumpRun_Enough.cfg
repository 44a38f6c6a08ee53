\* The instance of MCBumpRun.cfg, for the one claim that does not hold.
CONSTANTS
  N = 22
  Base = 1
  root = root
  btp = btp
  net = net
  im = im
  handler = handler
  unit = unit
  Tasks = {root, btp, net, im, handler, unit}
  Layout <- MCLayout
  Root = root
  Parent <- MCParent
  run = run
  coex = coex
  late = late
  Runs = {run, coex, late}
  Uses <- MCUses
  Rephased <- MCRephased
  NoRun = NoRun
SPECIFICATION Spec
INVARIANT EnoughOnceInitialized
CHECK_DEADLOCK FALSE
