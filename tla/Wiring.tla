------------------------------- MODULE Wiring -------------------------------
(***************************************************************************)
(* How the network is wired from its graph (Network::InitBase).            *)
(*                                                                         *)
(* Adj[n] is the list of the neighbours of node n, a neighbour once for    *)
(* each link to it.  Router n has a relay for each entry of Adj[n], on     *)
(* ports 1, 2, ..., and one more, LocalPort(n), for its processor.  Ports  *)
(* are numbered from 1 here and from 0 in the code; the relay of processor *)
(* n, whose local_id is -1 in the code, is <<n, 0>> here.                  *)
(***************************************************************************)
EXTENDS Naturals, SequencesExt

CONSTANT Adj

Nodes == DOMAIN Adj     \* numbered from 0

ASSUME WiringAssumption ==
    /\ IsFiniteSet(Nodes) /\ Nodes = 0 .. Cardinality(Nodes) - 1
    /\ \A n \in Nodes : Adj[n] \in Seq(Nodes)

\* Function f with y entered at x.
With(f, x, y) == [z \in DOMAIN f \cup {x} |-> IF z = x THEN y ELSE f[z]]

LocalPort(n) == Len(Adj[n]) + 1
Ports(n)     == 1 .. LocalPort(n)

\* The order in which InitBase visits the link relays.
LinkRelays == UNION {{<<n, p>> : p \in DOMAIN Adj[n]} : n \in Nodes}
Visits == FoldLeft(LAMBDA s, n : s \o [p \in DOMAIN Adj[n] |-> <<n, p>>], <<>>,
                   [i \in 1 .. Cardinality(Nodes) |-> i - 1])

\* A mutation of BindNext: every relay is bound to the first that points back.
BindNextOneWay(bound, r) ==
    LET m    == Adj[r[1]][r[2]]
        back == {p \in DOMAIN Adj[m] : Adj[m][p] = r[1]}
    IN  IF back = {} THEN bound ELSE With(bound, r, <<m, Min(back)>>)

\* A relay that is not bound yet is bound to the first unbound relay that
\* points back; the one found is bound in the same call.
BindNext(bound, r) ==
    LET m    == Adj[r[1]][r[2]]
        back == {p \in DOMAIN Adj[m] : Adj[m][p] = r[1] /\ <<m, p>> \notin DOMAIN bound}
        s    == <<m, Min(back)>>
    IN  IF r \in DOMAIN bound \/ back = {} THEN bound
        ELSE With(With(bound, s, r), r, s)

LinkBindings == FoldLeft(BindNext, <<>>, Visits)

\* Bound[r] is the relay that relay r is bound to: a relay of another router,
\* or the other end of the link between a router and its processor.
Relays == LinkRelays \cup {<<n, LocalPort(n)>> : n \in Nodes} \cup {<<n, 0>> : n \in Nodes}

Bound ==
    [r \in Relays |-> IF r[2] = 0 THEN <<r[1], LocalPort(r[1])>>
                      ELSE IF r[2] = LocalPort(r[1]) THEN <<r[1], 0>>
                      ELSE LinkBindings[r]]
=============================================================================
