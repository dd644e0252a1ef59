SPECIFICATION Spec
INVARIANTS TypeOK EngineHasEveryClip
CONSTANTS
    LiveRows = 1
    StudioRows = 2
    SampleLen = 2
    MaxTick = 2
    MaxClips = 3
    MaxGestures = 5
CHECK_DEADLOCK FALSE
