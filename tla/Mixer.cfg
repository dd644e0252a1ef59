SPECIFICATION Spec
CONSTANTS
    Volumes = {70, 75}
    Default = 75
    StudioDefault = 70
    ChannelCount = 3
    MaxTracks = 2
    MaxGestures = 5
    MaxLost = 1
INVARIANTS TypeOK MirrorsAgree ToldIsHeard
CHECK_DEADLOCK FALSE
