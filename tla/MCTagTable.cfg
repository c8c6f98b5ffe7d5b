\* Three devices compete for two places; reports queue up and grow old in the
\* channel, and clean-ups and expiry fall between them.
CONSTANTS
    Prefix = {ours, foreign}
    Device = {d1, d2, d3}
    TAG_PREFIX = ours
    Payload = {tag}
    NoPayload = none
    CHANNEL_CAPACITY = 2
    SCAN_INTERVAL = 1
    SCAN_WINDOW = 0
    MAX_SCAN_INTERVAL = 1
    MaxLag = 1
    MAX_SEEN = 2
    ExpiryIntervals = 2
    U16_MAX = 5
    MaxNow = 4
SYMMETRY DeviceSymmetry
SPECIFICATION Spec
INVARIANTS
    TypeOK
    KeepsMostRecent
    AgesBounded
    IInv
PROPERTY SnapshotComplete
