SPECIFICATION ServerSpec
CONSTANTS
    Fds = {0, 1, 2, 3, 4, 5}
    NoFd = NoFd
    MaxStarts = 3
    AnyOwner = TRUE
INVARIANTS ServerTypeOK SocketsSound ReadyIsSound
