SPECIFICATION Spec
CONSTANTS
    Tracks = {1, 2}
    Scenes = {1, 2}
    Lengths = {2}
    Beats = {1}
    BlockSizes = {2}
    Horizon = 2
    MaxGestures = 4
PROPERTY SceneLeavesOthers
CHECK_DEADLOCK FALSE
