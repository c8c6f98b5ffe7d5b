\* One device, a scanner that pauses between its windows, and time for two updates,
\* with a frame lost or a restart.
CONSTANTS
    Prefix = {ours}
    Device = {d1}
    TAG_PREFIX = ours
    Payload = {tag}
    NoPayload = none
    CHANNEL_CAPACITY = 1
    SCAN_INTERVAL = 2
    SCAN_WINDOW = 1
    MAX_SCAN_INTERVAL = 1
    MaxLag = 0
    MAX_SEEN = 1
    ExpiryIntervals = 1
    U16_MAX = 4
    MaxNow = 3
    TIME_BETWEEN_UPDATES = 1
    MIN_BETWEEN_UPDATES = 1
    GNNS_AQUISITION_TIMEOUT_SEC = 1
    MaxTries = 8
    MaxWait = 4
    FrameTime = 1
    MaxFaults = 1
SPECIFICATION FairSpec
INVARIANTS
    TypeOK
PROPERTIES
    UpdateTruthful
    UpdateCurrent
    ExchangeEnds
CHECK_DEADLOCK FALSE
