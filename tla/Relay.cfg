\* One link with two slots at each end and flits that can be told apart.
CONSTANTS
    a = a
    b = b
    d1 = d1
    d2 = d2
    Relays = {a, b}
    Peer <- LinkPeer
    NumVCs = 1
    Depth = 2
    Payloads = {d1, d2}
SPECIFICATION FairSpec
INVARIANTS TypeOK NoOverflow CreditSound NoOverwrite
PROPERTIES CycleView EveryFlitArrives LinkRecovers ImplementsChannel
