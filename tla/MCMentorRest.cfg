SPECIFICATION LiveSpec
CONSTANTS
  r1 = r1
  p1 = p1
  p2 = p2
  w1 = w1
  w2 = w2
  o1 = o1
  Runs = {r1}
  Procs = {p1, p2}
  Entry = {p1}
  Workers = {w1, w2}
  ProcOf <- MCProcOf
  Session <- MCSession
  Startable = {}
  SavedModes = {TRUE}
  Ops = {}
  Leases = {1, 2, 3, 4, 5}
  Concurrency = 2
  MaxCalls = 3
  MaxDisruptions = 1
  MaxGeneration = 1
PROPERTY RunsComeToRest
