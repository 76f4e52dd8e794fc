CONSTANTS
    k_none = k_none
    k_relay = k_relay
    NoKey <- k_none
    RelayKey <- k_relay
    MaxMsgs <- MCMaxMsgs
    MaxFrames <- MCMaxFrames
    MergeSize <- MCMergeSize
    ModelLoaded = TRUE
SPECIFICATION Spec
INVARIANTS
    TypeOK
    DeliveredResultsFaithful
    DeliveredInBatchOrder
    BatchOnlyWithKey
PROPERTIES
    ClosedConnectionEndsSession
    MessagesEventuallyConsumed
    ImplementsBatchService
CHECK_DEADLOCK FALSE
