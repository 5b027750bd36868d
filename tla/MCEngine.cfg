\* One name, two instances one after the other, two callers, every strategy.
CONSTANTS
  i1 = i1
  i2 = i2
  p = p
  q = q
  n1 = n1
  None = None
  Names <- OneName
  Instances <- TwoInstances
  Callers <- TwoCallers
  Strategies <- AllStrategies
  MaxRestarts = 1
  MaxBacklog = 1
SPECIFICATION FairSpec
INVARIANTS RegistryExact HooksPaired
PROPERTIES ImplementsDirectory EverythingStops
