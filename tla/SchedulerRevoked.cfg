SPECIFICATION FilledSpec
CONSTANTS
  a1 = a1  a2 = a2  a3 = a3  sweep = sweep  once = once
  Agents = {a1, a2, a3}
  Pieces = {1, 2, 3, 4, 5}
  Sizes = {16, 32}
  Keys = {1, 2, 3, 4, 5, 11, 12, 13}
  BlockOf <- MCBlockOf
  Length <- MCLength
  MaxLength = 1
  Score <- MCScore
  Rank <- MCRank
  Schedules = {sweep, once}
  Kind <- KindOf
  Period <- PeriodOf
  Day = 2
  Window <- WindowOf
  Teams <- TeamsFor
  Delays = {1}
  MaxEvents = 1
  None = None

PROPERTY TeamCarriesOn
