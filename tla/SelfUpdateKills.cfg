SPECIFICATION Spec
CONSTANTS
  a1 = a1  a2 = a2
  Agents = {a1}
  AutoUpdated = {a1}
  MaxAttempts = 3
  MaxVersion = 2
  MaxScans <- ScansOf
  MaxEvents = 1

INVARIANT ScansAreSpared
