SPECIFICATION Spec
PROPERTY TrimKeepsContent
CONSTANTS
    LiveRows = 1
    StudioRows = 2
    SampleLen = 2
    MaxTick = 2
    MaxClips = 2
    MaxGestures = 4
CHECK_DEADLOCK FALSE
