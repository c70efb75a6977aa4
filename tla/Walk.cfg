\* Every algorithm on the graphs it is for.
CONSTANT Cases <- AllCases
SPECIFICATION FairSpec
CHECK_DEADLOCK FALSE
INVARIANTS TypeOK SomeOutput NoCyclicWait SpanningTree RoutesComplete
PROPERTIES Minimal Arrives StaysInSubnetwork
