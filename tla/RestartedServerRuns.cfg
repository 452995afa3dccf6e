SPECIFICATION ProgramSpec
CONSTANTS
    Fds = {0, 1, 2, 3, 4, 5, 6, 7}
    NoFd = NoFd
    MaxStarts = 2
    AnyOwner = FALSE
    MAX_FAILURES = 1
    StaticIp = TRUE
    MaxEvents = 3
INVARIANT RestartedServerRuns
