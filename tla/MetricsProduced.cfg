CONSTANTS
    Scale = 144
    PacketSize = 2
    Depth = 2
    Outs = {0}
    Managers <- MCManagers
    Draws = 2
    Memory <- MCMemory
    ClockPeriod = 1000
    ResetTime = 1
    WarmUpTime = 1
    SimulationTime = 13
    ProductionTime = 9
    MaxPackets = 4
    StoryStart = 1
    StoryEnd <- NoBound
SPECIFICATION Spec
CHECK_DEADLOCK FALSE
INVARIANT ProducedExact
