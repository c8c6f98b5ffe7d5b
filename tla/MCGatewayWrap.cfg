\* The age of a tag after a long wait for the link.
CONSTANTS
    TIME_BETWEEN_UPDATES = 3
    MIN_BETWEEN_UPDATES = 2
    GNNS_AQUISITION_TIMEOUT_SEC = 360
    U16_MAX = 7
    TagId = {t1}
    Age = {0, 2}
    FAKE_POSITION = FALSE
    MaxTries = 8
    MaxWait = 9
SPECIFICATION Spec
INVARIANT AgesNeverShrink
