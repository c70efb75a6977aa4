CONSTANTS
    i1 = i1
    i2 = i2
    m = m
    e1 = e1
    e2 = e2
    None = None
    Channels = {i1, i2, m, e1, e2}
    Out <- TwoRouters
    Injects = {i1, i2}
    Flits <- TwoPackets
    Depth = 1
SPECIFICATION Spec
INVARIANTS WTypeOK PacketsContiguous PathHeld Bounded
