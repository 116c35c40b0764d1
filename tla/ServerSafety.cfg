SPECIFICATION ServerSpec
CONSTANTS
  Parts = {"feed", "drains", "bundles", "checks", "overlaps", "turns", "uptime", "shots",
           "ticks", "logins", "ports", "targets", "backups", "restores", "loads"}
  m1 = m1  m2 = m2  e1 = e1  e2 = e2  x2 = x2
  NumFeeds = 1
  Moving = {1}
  Passes = {p1, p2}
  MaxKey = 3
  RowsPerTick = 2
  EventsPerPost = 1
  MaxHecFaults = 1
  Alerts = {m1, m2}
  Bundled = {m1, m2}
  Drains = {e1, e2}
  MaxAttempts = 3
  MaxHookFaults = 1
  Rounds = {c1, c2}
  MaxEpisodes = 2
  MaxCheckFaults = 1
  MaxResults = 3
  TcpPorts = {53}
  UdpPorts = {53}
  MaxHostFaults = 1
  Tolerance = 1
  Wrap = 5
  MaxTime = 12
  MaxBoots = 2
  MaxWaiting = 2
  MaxDelay = 2
  Shots = {s1}
  Deleters = {d1, d2}
  MaxHosts = 2
  MaxShotFaults = 2
  Ticks = {t1, t2}
  MaxDue = 3
  MaxTickFaults = 1
  Logins = {l1, l2}
  ClientIps = {ip1}
  Users = {u1, u2}
  MaxTries = 2
  MaxPasses = 2
  MaxPort = 3
  Probes = {2}
  MaxParts = 2
  Base = 4
  Octets = 2
  Ranges <- MCRanges
  Patterns <- MCPatterns
  MaxTokens = 2
  MaxEntries = 3
  Limit = 12
  MaxText = 6
  MinAddresses = 2
  BlockTime = 2
  LongTime = 4
  PortCounts = {1, 2, 4}
  Rates = {3}
  SplitSizes <- MCSplitSizes
  MaxBlocks = 7
  ScannerIds = {"n1", "n2"}
  Owner <- MCOwner
  MaxDay = 2
  MaxArchives = 3
  Keeps = {1, 2}
  MaxBackupFaults = 1
  Captures = {k1, k2}
  Uploads = {x1, x2}
  MaxRestoreFaults = 1
CHECK_DEADLOCK FALSE

INVARIANTS FeedIsExact AlertsAccounted AlertedOnce RecordIsLatest AlertsAreTrue RebootsAreTold
  RowsAreWhole TicksAgree LockIsSound PortsAgree PlanIsExact BackupsAreSound RestoresAreSound
