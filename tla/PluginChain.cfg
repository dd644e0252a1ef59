SPECIFICATION Spec
CONSTANTS
  Tracks = {0, 1, 2}
  Master = 0
  MaxSlots = 2
  MaxLoads = 3
  MaxGestures = 7
INVARIANTS TypeOK ChainFollowsRack RegistryNamesChain EditorHearsItsPlugin
PROPERTY ParamsReachTheirPlugin
CHECK_DEADLOCK FALSE
