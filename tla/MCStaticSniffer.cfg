\* Two sequence numbers, so that they start over while a report waits, and three
\* receptions that compete for two places in the channel.
CONSTANTS
    Name = {"Ariel"}
    TAG_NAME = "Ariel"
    SEQUENCES = 2
    Prefix = {ours, foreign}
    Device = {tag}
    TAG_PREFIX = ours
    Payload <- ParsedAdvertisement
    NoPayload <- NoAdvertisement
    CHANNEL_CAPACITY = 2
    SCAN_INTERVAL = 2
    SCAN_WINDOW = 1
    MAX_SCAN_INTERVAL = 2
    MaxLag = 0
    MaxReceptions = 3
SPECIFICATION FairSpec
INVARIANTS
    TypeOK
    ReportsTrue
    ParseCorrect
PROPERTIES
    ImplementsDelivery
    KeepsForwarding
