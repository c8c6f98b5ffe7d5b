\* What the proxy posts, against the required keys of the schema.
CONSTANTS
    MaxUpdates = 1
    MaxRestarts = 0
    MaxProxyRestarts = 0
SPECIFICATION Spec
INVARIANTS
    SchemaKept
CHECK_DEADLOCK FALSE
