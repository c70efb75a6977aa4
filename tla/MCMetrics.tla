----------------------------- MODULE MCMetrics ------------------------------
\* A processor that produces up to four packets of two flits into a buffer of two.
EXTENDS Metrics

NoBound == -1       \* trace_interval has no end

\* A draw is one of two halves.  The hotspots send less often, or always.  The
\* lines of the table give nothing but a rate, or one window, or a window with a
\* period, or leave t_on to what is in memory.
Halves == 1
MCManagers ==
    {Random(2, Halves)}
    \cup {Hotspot(2, Halves, <<[node |-> 0, send |-> factor, receive |-> 1]>>) : factor \in {0, 2}}
    \cup UNION {TableBased(2, Halves, line, SimulationTime) :
                   line \in {<<0, 1, 1>>, <<0, 1, 1, 0, 2, 7>>, <<0, 1, 2, 0, 1, 4, 5>>, <<0, 1, 2, 0>>}}
MCMemory == {-1, 0, 9}
=============================================================================
