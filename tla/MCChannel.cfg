SPECIFICATION FairSpec
CONSTANTS
    RingSize = 2
    IdxMod = 4
    PayloadMod = 2
    StatMod = 4
    Threads = {t1, t2}
INVARIANTS TypeOK OccupancyBounded InFlightExact TotalsAgree DequeueFindsEntry
PROPERTIES ImplementsPipeline SubmissionsAreTaken CloseTerminates
