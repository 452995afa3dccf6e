SPECIFICATION ServerSpec
CONSTANTS
    NbAllowedClients = 2
    RxBufferSize = 2
    TxBufferSize = 2
    PendingSize = 1
    Fds = {f1, f2, f3}
    NoFd = NoFd
    OutOfBounds <- MCOutOfBounds
    CallsSendTcpMsg = FALSE
PROPERTIES OnlyHolderGivesCommands
