SPECIFICATION FairSpec
CONSTANTS
  r1 = r1
  r2 = r2
  s1 = s1
  a = a
  b = b
  noProc = noProc
  NoProc = noProc
  Replacers <- TwoReplacers
  Stoppers <- OneStopper
  Deadlined <- OneStopper
  Configs <- TwoConfigs
  Address <- OwnAddress
  ForceClose <- Unforced
  MaxDraining = 1
  MaxGenerations = 2
  Visited = {1}
  Faulty = {1}
  Upgrading = {}
PROPERTIES
  ReplaceFinishes
  ShutdownFinishes
