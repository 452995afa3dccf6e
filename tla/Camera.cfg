SPECIFICATION FairCamSpec
CONSTANTS
    FrameDataSize = 1020
    MaxPicLen = 3072
    Lens = {1, 1020, 2041, 3061}
    MaxPics = 2
    Fds = {f1, f2}
    NbAllowedClients = 2
INVARIANTS CamTypeOK PictureWhole NotWrittenWhileSent
PROPERTIES ProcessedWasSent IsPictureStream EveryPictureSent
