SPECIFICATION SettlesSpec
CONSTANTS
  Parts = {"queue", "feed", "hooks", "checks", "shots", "backups"}
  a1 = a1  a2 = a2  r1 = r1  r2 = r2  r3 = r3  h1 = h1  j1 = j1  j2 = j2  jl = jl
  Agents = {a1}
  Requests = {r1, r2}
  Jobs = {j1, j2}
  Sessions = {}
  AgentOf <- FirstAgentOf
  PriorityOf <- Priorities
  HostOf <- Hosts
  LocalJobs = {}
  Hanging = {j2}
  MaxScans = 1
  MaxFaults = 1
  NoRequest = NoRequest  NoJob = NoJob  NoAgent = NoAgent  NoHost = NoHost
  NumFeeds = 1
  Moving = {1}
  Passes = {p1}
  MaxKey = 2
  RowsPerTick = 2
  EventsPerPost = 1
  MaxHecFaults = 1
  Alerts = {m1, m2}
  Bundled = {m1}
  Drains = {d1}
  MaxAttempts = 2
  MaxHookFaults = 1
  Rounds = {c1}
  MaxEpisodes = 2
  MaxCheckFaults = 1
  Shots = {s1}
  Deleters = {e1}
  MaxHosts = 2
  MaxShotFaults = 1
  MaxDay = 2
  MaxArchives = 2
  Keeps = {1}
  MaxBackupFaults = 1
CHECK_DEADLOCK FALSE

PROPERTIES ScansSettle RowsArrive AlertsSettle AlertsKeepUp FilesAreReclaimed BackupsGoOn
