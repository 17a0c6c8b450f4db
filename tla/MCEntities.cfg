SPECIFICATION Spec
CONSTANTS
  a = a
  b = b
  c = c
  one = one
  two = two
  aX = aX
  bX = bX
  cZ = cZ
  aS = aS
  cS = cS
  gone = gone
  aY = aY
  bY = bY
  bZ = bZ
  Client = Client
  None = None
  Entity = {a, b, c}
  Jobs = {one, two}
  EntitiesOf <- Segments
  Actions = {aX, bX, cZ, aS, cS, gone, aY, bY, bZ}
  KindOf <- Kinds
  TargetOf <- Targets
  DataOf <- SharedData
  Table <- Zeroed
  Script <- Client3
  Reactions <- InUpdatesAndInit
  LastFrame = 4
INVARIANTS
  RegistryState
  
PROPERTIES
  ActionApplied
