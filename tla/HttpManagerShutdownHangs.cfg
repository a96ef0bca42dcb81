SPECIFICATION ServedSpec
CONSTANTS
  r1 = r1
  r2 = r2
  s1 = s1
  a = a
  b = b
  noProc = noProc
  NoProc = noProc
  Replacers <- TwoReplacers
  Stoppers <- OneStopper
  Deadlined <- Nobody
  Configs <- TwoConfigs
  Address <- OwnAddress
  ForceClose <- Unforced
  MaxDraining = 1
  MaxGenerations = 2
  Visited = {1}
  Faulty = {}
  Upgrading = {1}
PROPERTY ShutdownFinishes
