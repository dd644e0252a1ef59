SPECIFICATION Spec
CONSTANTS
    Tracks = {1, 2}
    Scenes = {1, 2}
    Lengths = {2, 3}
    LoopRegions <- MCLoopRegions
    Beats = {2, 3}
    BlockSizes = {3}
    Horizon = 8
    MaxEdits = 3
INVARIANTS TypeOK OneVoicePerTrack StartsInThePast LoopInsideClip NoSeam PlayheadExact
PROPERTIES LegatoOrScene OneShotEnds
CHECK_DEADLOCK FALSE
