SPECIFICATION DeviceSpec
CONSTANTS
    MaxBuffers = 2
    IdMod = 3
    Vmas = {v1, v2}
    Dmabufs = {d1, d2}
    MaxRefs = 2
    Importers = {m1}
    None = None
INVARIANTS MappingsSafe ExportedMemoryIsLive NothingOutlivesItsBase
PROPERTY BuffersBecomeDestroyable
