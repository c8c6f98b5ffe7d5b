\* Two updates; the gateway and the proxy may each start over once.
CONSTANTS
    MaxUpdates = 2
    MaxRestarts = 1
    MaxProxyRestarts = 1
SPECIFICATION FairSpec
INVARIANTS
    TypeOK
    ReadMeansCurrent
    OkMeansForwarded
    ProxyRestores
PROPERTIES
    
    SendUpdateReturns
CHECK_DEADLOCK FALSE
