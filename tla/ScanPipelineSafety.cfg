SPECIFICATION FairSpec
CONSTANTS
  h1 = h1  h2 = h2  h3 = h3  t1 = t1  t2 = t2  t3 = t3  shot = shot  tls = tls
  Addrs = {h1, h2, h3}
  Blocks = 2
  BlockOf <- TwoBlocks
  Tasks = {t1, t2, t3}
  TaskHost <- Hosts
  TaskKind <- KindsOf
  Kinds = {shot, tls}
  Concurrency = 2
  KindWorkers <- Workers
  Hanging = {h2, t1}
  MaxPanics = 1
CHECK_DEADLOCK FALSE

INVARIANTS NothingForgotten WorkIsOrderly ProgressAddsUp
PROPERTIES ScansComeToAnEnd
