SPECIFICATION FairSpec
CONSTANTS
  i1 = i1
  i2 = i2
  Nothing = nothing
  Instances <- TwoInstances
  Policies <- SomePolicies
  Orders <- BothOrders
  Host <- SmallHost
INVARIANTS
  TypeOK
  ExclusiveUse
  ComposedIsConfined
PROPERTY PreparationEnds
