\* A ring where packets want the way of the next one and are longer than a buffer, with
\* two virtual channels.
CONSTANTS
    None = None
    Adj <- Ring4Adj
    Table <- Ring4Table
    SubTable <- Ring4Table
    Traffic <- RingTraffic
    MaxPackets <- OneEach4
    Lengths = {2}
    Size = 4
    Depth = 1
    NumVCs = 2
    UpdateSequence <- RoundRobin
    RoutingAlgorithm = "TABLE_BASED"
    SelectionStrategy = "CIRCULANT_VIRTUAL_RING_SPLIT"
SPECIFICATION FairSpec
INVARIANTS TypeOK NoFlitLost NoMisdelivery NoOverflow NoStaleReservation
PROPERTIES EverythingDelivered ImplementsWormhole
