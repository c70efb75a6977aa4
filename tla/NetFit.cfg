\* A line with a virtual subnetwork that packets may not leave.
CONSTANTS
    None = None
    Adj <- LineAdj
    Table <- LineTable
    SubTable <- LineTable
    Traffic <- ToLast
    MaxPackets <- TwoToLast
    Lengths = {2}
    Size = 3
    Depth = 2
    NumVCs = 2
    UpdateSequence <- RoundRobin
    RoutingAlgorithm = "FIT_VIRTUAL_SUBNETWORK"
    SelectionStrategy = "RANDOM"
SPECIFICATION FairSpec
PROPERTY StaysInSubnetwork
