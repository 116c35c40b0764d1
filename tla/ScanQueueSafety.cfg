SPECIFICATION SafetySpec
CONSTANTS
  a1 = a1  a2 = a2  r1 = r1  r2 = r2  r3 = r3  h1 = h1  j1 = j1  j2 = j2  jl = jl
  Agents = {a1, a2}
  Requests = {r1, r2, r3}
  Jobs = {j1, j2, jl}
  Sessions = {s1, s2}
  AgentOf <- FirstAgentOf
  PriorityOf <- Priorities
  HostOf <- Hosts
  LocalJobs = {jl}
  Hanging = {}
  MaxScans = 1
  MaxFaults = 1
  NoRequest = NoRequest  NoJob = NoJob  NoAgent = NoAgent  NoHost = NoHost

VIEW SafetyView
SYMMETRY JobSymmetry
CONSTRAINT BesideLocal

INVARIANTS OneRunPerRequest RunsAreOrderly HonestCompletion ResumeAfterScanEnds
PROPERTIES RefinesLifecycle ResumedOnce
