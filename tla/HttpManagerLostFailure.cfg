SPECIFICATION Spec
CONSTANTS
  r1 = r1
  r2 = r2
  s1 = s1
  a = a
  b = b
  noProc = noProc
  NoProc = noProc
  Replacers <- TwoReplacers
  Stoppers <- OneStopper
  Deadlined <- OneStopper
  Configs <- TwoConfigs
  Address <- OwnAddress
  ForceClose <- ForcedOnA
  MaxDraining = 1
  MaxGenerations = 1
  Visited = {}
  Faulty = {1}
  Upgrading = {}
INVARIANT DeadActiveIsReported
