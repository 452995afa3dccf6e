SPECIFICATION ServerSpec
CONSTANTS
    NbAllowedClients = 3
    RxBufferSize = 2
    TxBufferSize = 2
    PendingSize = 2
    Fds = {f1, f2, f3, f4}
    NoFd = NoFd
    OutOfBounds <- MCOutOfBounds
    CallsSendTcpMsg = FALSE
SYMMETRY FdSymmetry
INVARIANTS ServerTypeOK PassSound NoCommandDropped NoStatusDropped ListSound
