\* What the comment on the failure of dma_buf_fd says.
SPECIFICATION DeviceSpec
CONSTANTS
    MaxBuffers = 2
    IdMod = 4
    Vmas = {v1, v2, v3}
    Dmabufs = {d1}
    MaxRefs = 1
    Importers = {m1}
    None = None
INVARIANT ContextFreedOnce
