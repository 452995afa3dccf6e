SPECIFICATION Spec
CONSTANTS
    MaxFrameLen = 11
    ConnectionLogin <- MCConnectionLogin
    SudoLogin <- MCSudoLogin
    PeerFrames <- MCPeerFrames
    MaxSent = 3
    OutOfBounds <- MCOutOfBounds
INVARIANTS TypeOK FrameIsPiece
PROPERTIES LoginInOnePiece
