SPECIFICATION FairSpec
CONSTANTS
    NbAllowedClients = 2
    RxBufferSize = 1
    TxBufferSize = 1
    Fds = {f1, f2, f3}
    NoFd = NoFd
    OutOfBounds <- MCOutOfBounds
    CallsSendTcpMsg = TRUE
INVARIANTS TypeOK ListSound OneHolder TurnSound
PROPERTIES ReleasedByHolder CommandsFromHolder SessionsHold EveryClientRead
