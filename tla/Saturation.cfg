\* A corner, a border and the centre of a mesh, flooded with packets of one to five flits.
CONSTANTS
    None = None
    Adj <- MeshAdj
    Table <- NoTable
    SubTable <- NoTable
    Size = 9
    Depth = 2
    NumVCs = 1
    UpdateSequence <- RoundRobin
    RoutingAlgorithm = "TABLE_BASED"
    SelectionStrategy = "RANDOM"
    Hubs = {0, 1, 4}
    Lengths = {1, 2, 3, 4, 5}
SPECIFICATION Spec
PROPERTIES NeverIdle EveryFlowServed StarvesInStep
