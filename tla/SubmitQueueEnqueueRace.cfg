SPECIFICATION Spec
CONSTANTS
  R1 = R1  R2 = R2  Serve = Serve  Flush = Flush
  Results = {R1}
  Invalid = {}
  Drainers = {Serve}
  Watcher = Serve
  NoResult = NoResult
  MaxAttempts = 2
  MaxOutages = 1
  MaxFaults = 0

INVARIANT EnqueuedIsDurable
