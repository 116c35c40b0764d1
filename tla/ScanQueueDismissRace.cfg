SPECIFICATION Spec
CONSTANTS
  a1 = a1  a2 = a2  r1 = r1  r2 = r2  r3 = r3  h1 = h1  j1 = j1  j2 = j2  jl = jl
  Agents = {a1}
  Requests = {r1, r2}
  Jobs = {j1, j2}
  Sessions = {s1}
  AgentOf <- FirstAgentOf
  PriorityOf <- Priorities
  HostOf <- Hosts
  LocalJobs = {}
  Hanging = {}
  MaxScans = 1
  MaxFaults = 1
  NoRequest = NoRequest  NoJob = NoJob  NoAgent = NoAgent  NoHost = NoHost

PROPERTIES JobReportWins
