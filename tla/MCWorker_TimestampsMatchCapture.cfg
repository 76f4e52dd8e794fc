CONSTANTS
    k_none = k_none
    k_relay = k_relay
    NoKey <- k_none
    RelayKey <- k_relay
    MaxMsgs <- MCMaxMsgs
    MaxFrames <- MCMaxFrames
    MergeSize <- MCMergeSize
    ModelLoaded = TRUE
SPECIFICATION Spec
INVARIANT TimestampsMatchCapture
CHECK_DEADLOCK FALSE
