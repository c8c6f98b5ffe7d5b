\* Three updates, so that a packet can be two calls late, and two restarts.
CONSTANTS
    MaxUpdates = 3
    MaxRestarts = 2
SPECIFICATION FairSpec
INVARIANT TypeOK
PROPERTIES
    ImplementsDelivery
    CallEnds
CHECK_DEADLOCK FALSE
