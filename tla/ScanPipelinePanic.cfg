SPECIFICATION Spec
CONSTANTS
  h1 = h1  h2 = h2  h3 = h3  t1 = t1  t2 = t2  t3 = t3  shot = shot  tls = tls
  Addrs = {h1, h2}
  Blocks = 2
  BlockOf <- TwoBlocks
  Tasks = {t1}
  TaskHost <- Hosts
  TaskKind <- KindsOf
  Kinds = {shot, tls}
  Concurrency = 1
  KindWorkers <- Workers
  Hanging = {}
  MaxPanics = 1
CHECK_DEADLOCK FALSE

INVARIANT PanicsAreContained
