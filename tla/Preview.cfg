SPECIFICATION PreviewSpec
CONSTANTS
    Audio = {"mono", "short", "stereo"}
    Broken = {"broken"}
    Midi = {"midi"}
    NoFile = "none"
    Length <- MCLength
    Channels <- MCChannels
    BlockFrames = 2
    MaxRequests = 3
    MaxQueue = 2
INVARIANTS PreviewTypeOK OnlyOvertakenIntrude
PROPERTIES WholePreviewHeard
