SPECIFICATION CanarySpec
CONSTANTS
  a1 = a1  a2 = a2
  Agents = {a1, a2}
  AutoUpdated = {a1, a2}
  MaxAttempts = 3
  MaxVersion = 2
  MaxScans <- ScansOf
  MaxEvents = 1

INVARIANTS UpdatesAreSound
PROPERTIES RequestsEnd ComesUpToDate
