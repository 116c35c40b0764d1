SPECIFICATION BoundedSpec
CONSTANTS
  R1 = R1  R2 = R2  Serve = Serve  Flush = Flush
  Results = {R1, R2}
  Invalid = {R2}
  Drainers = {Serve, Flush}
  Watcher = Serve
  NoResult = NoResult
  MaxAttempts = 2
  MaxOutages = 4
  MaxFaults = 1

INVARIANTS NothingVanishes QueueIsSound
PROPERTY EveryResultSettles
