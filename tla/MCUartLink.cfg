\* Three faults, enough to overflow the buffer of the gateway, restarts of both
\* chips, and a request that has to end all the same.
CONSTANTS
    MAX_FRAME = 2
    PACKET_BUFFER = 7
    RX_BUFFER = 2
    MaxVersion = 1
    MaxFaults = 3
SPECIFICATION FairSpec
INVARIANTS
    TypeOK
    FaultsSpoilOneFrame
PROPERTIES
    ImplementsHandoff
    RequestEnds
