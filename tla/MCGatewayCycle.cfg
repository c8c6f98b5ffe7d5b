\* Real 16-bit arithmetic, with ages a short wait for the link overflows; a
\* fair executor, and an environment that lets an update through.
CONSTANTS
    TIME_BETWEEN_UPDATES = 3
    MIN_BETWEEN_UPDATES = 2
    GNNS_AQUISITION_TIMEOUT_SEC = 360
    U16_MAX = 65535
    TagId = {t1}
    Age = {0, 65533}
    FAKE_POSITION = FALSE
    MaxTries = 9
    MaxWait = 4
SPECIFICATION FairSpec
INVARIANTS
    TypeOK
    RadioExclusive
    AgesHonest
    BackoffExact
    LedTellsPhase
PROPERTIES
    UpdatesSpaced
    UpdatesKeepComing
