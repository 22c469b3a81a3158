----------------------------- MODULE MCClusters -----------------------------
(* The two kinds of cluster, each on its own: a behaviour is either a stream *)
(* of events on one earnings cluster of at most three sources, or the run of *)
(* one event plan, an event-cluster of four records with two competing       *)
(* corrections, by two runners.                                              *)
EXTENDS ClusterRun, ClusterStream

CONSTANTS r1, r2, a1, a2, a3

VARIABLE subject

Ready == [s \in Sources |-> Binding("p", TRUE, TRUE, FALSE, FALSE)]
NoMarket == [Ready EXCEPT !["sectorMarketBars"].configured = FALSE]

Member(kind, record, rev, replaces, at0) ==
  [kind |-> kind, record |-> record, rev |-> rev, replaces |-> replaces, at |-> at0]

MCMembers ==
  {Member("issuer-release", "release", 1, 0, 0), Member("issuer-release", "release", 2, 1, 1),
   Member("issuer-release", "release", 3, 1, 1),
   Member("transcript", "call", 1, 0, 0)}
MCArtifacts == {a1, a2, a3}
Symmetry == Permutations({r1, r2}) \cup Permutations(MCArtifacts)

clustersVars == <<subject, vars, streamVars>>

ClustersInit == subject \in {"earnings", "beta"} /\ Init /\ InitStream

ClustersNext ==
  \/ subject = "beta" /\ Next /\ UNCHANGED <<subject, streamVars>>
  \/ subject = "earnings" /\ StreamNext /\ UNCHANGED <<subject, vars>>

ClustersSpec == ClustersInit /\ [][ClustersNext]_clustersVars
=============================================================================
