CONSTANTS
    Layers = 2
    Chunks = 2
    Window = 2
    Iterations = 3
    ImmMod = 4
    BitmapBits = 4
    MaxLayers = 2
    CqDepth = 4
    PeerRecvWr = 4
    Headroom = 1
SPECIFICATION Spec
INVARIANTS
    TransferSafe
    SenderSuccessDelivered
    ExitReleasesAll
PROPERTIES
    TransferEnds
    AllChunksArrive
