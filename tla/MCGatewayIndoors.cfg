\* Where the board is never located.
CONSTANTS
    TIME_BETWEEN_UPDATES = 3
    MIN_BETWEEN_UPDATES = 2
    GNNS_AQUISITION_TIMEOUT_SEC = 360
    U16_MAX = 65535
    TagId = {t1}
    Age = {0}
    FAKE_POSITION = FALSE
    MaxTries = 8
    MaxWait = 1
SPECIFICATION FairSpecIndoors
PROPERTY UpdatesWithoutFix
