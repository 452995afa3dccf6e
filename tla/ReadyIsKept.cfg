SPECIFICATION Spec
CONSTANTS
    MAX_FAILURES = 2
    StaticIp = TRUE
    MaxEvents = 4
PROPERTY ReadyIsKept
