----------------------------- MODULE GraphSignals -----------------------------
(***************************************************************************)
(* The graph signals of sybil detection (src/lib/graph.ts), as operators.  *)
(*                                                                         *)
(* Transactions are a sequence of records with from, to and round; a graph *)
(* is a function from a wallet to the set of its neighbours; `nodes` is a  *)
(* sequence, for callers pass lists in which a wallet may occur twice.     *)
(* Signals are percent (the code rounds them to hundredths).               *)
(***************************************************************************)
EXTENDS Integers, Sequences, FiniteSets, Functions

Percent(n, d) == (200 * n + d) \div (2 * d)
Highest(S) == CHOOSE x \in S : \A y \in S : y <= x
Members(nodes) == {nodes[i] : i \in DOMAIN nodes}

\* The wallets of the transactions that are not to oneself.
GraphNodes(txs) ==
  UNION {{txs[i].from, txs[i].to} : i \in {j \in DOMAIN txs : txs[j].from # txs[j].to}}

buildAdjacencyList(txs) ==
  [w \in GraphNodes(txs) |->
     {v \in GraphNodes(txs) \ {w} : \E i \in DOMAIN txs : {txs[i].from, txs[i].to} = {v, w}}]

getNeighbors(adj, w) == IF w \in DOMAIN adj THEN adj[w] ELSE {}

-----------------------------------------------------------------------------
(* Clustering *)

Pairs(S) == {p \in SUBSET S : Cardinality(p) = 2}
Joined(adj, p) == \E a, b \in p : a # b /\ b \in getNeighbors(adj, a)

Coefficient(count, k) == IF k < 2 THEN 0 ELSE Percent(count, (k * (k - 1)) \div 2)

\* computeClusteringCoefficient: the pairs of neighbours of w that are joined.
computeClusteringCoefficient(adj, w) ==
  LET around == getNeighbors(adj, w)
  IN  Coefficient(Cardinality({p \in Pairs(around) : Joined(adj, p)}), Cardinality(around))

EdgesOf(adj) == {p \in Pairs(DOMAIN adj) : Joined(adj, p)}

\* Mutant: every wallet that one end of the edge reaches is counted.
commonCountLoose(adj, w) ==
  Cardinality({p \in EdgesOf(adj) : w \notin p /\ \E u \in p : w \in getNeighbors(adj, u)})

\* The batch algorithm counts, edge by edge, the common neighbours of its ends.
commonCount(adj, w) ==
  Cardinality({p \in EdgesOf(adj) : w \notin p /\ \A u \in p : w \in getNeighbors(adj, u)})

computeAllClusteringCoefficients(adj) ==
  [w \in DOMAIN adj |-> Coefficient(commonCount(adj, w), Cardinality(adj[w]))]

\* The nodes of the graph among those asked for; the others do not count.
computeAverageClustering(adj, nodes) ==
  LET counted == Members(nodes) \cap DOMAIN adj
      all == computeAllClusteringCoefficients(adj)
      total == SumFunction([n \in counted |-> all[n]])
  IN  IF counted = {} THEN 0 ELSE total \div Cardinality(counted)

-----------------------------------------------------------------------------
(* Hubs and intermediaries *)

\* The degree is that of the whole graph, the size that of the cluster.
computeHubScore(adj, w, size) ==
  LET degree == Cardinality(getNeighbors(adj, w))
  IN  IF size <= 1 THEN 0 ELSE IF degree >= size - 1 THEN 100 ELSE Percent(degree, size - 1)

computeMaxHubScore(adj, nodes) ==
  IF nodes = <<>> THEN 0
  ELSE Highest({computeHubScore(adj, w, Len(nodes)) : w \in Members(nodes)})

\* Of the pairs of neighbours that are not joined, those joined through a third.
computeIntermediateDensity(adj, w) ==
  LET apart == {p \in Pairs(getNeighbors(adj, w)) : ~Joined(adj, p)}
      bridged == {p \in apart : \E v \in DOMAIN adj \ (p \cup {w}) :
                                   \A u \in p : v \in getNeighbors(adj, u)}
  IN  IF apart = {} THEN 0 ELSE Percent(Cardinality(bridged), Cardinality(apart))

computeAverageIntermediateDensity(adj, nodes) ==
  IF nodes = <<>> THEN 0
  ELSE SumFunction([i \in DOMAIN nodes |-> computeIntermediateDensity(adj, nodes[i])]) \div Len(nodes)

-----------------------------------------------------------------------------
(* Components *)

\* The wallets reached from one, over neighbours that are in the set.
bfs(adj, start, within) ==
  LET reach[n \in Nat] == IF n = 0 THEN {start}
        ELSE reach[n - 1] \cup UNION {getNeighbors(adj, u) \cap within : u \in reach[n - 1]}
  IN  reach[Cardinality(within)]

findConnectedComponents(adj, nodes) ==
  {bfs(adj, w, Members(nodes)) : w \in Members(nodes)}

computeComponentRatio(adj, nodes) ==
  IF nodes = <<>> THEN 0
  ELSE Percent(Highest({Cardinality(c) : c \in findConnectedComponents(adj, nodes)}), Len(nodes))

-----------------------------------------------------------------------------
(* Activity at the same time *)

RoundsOf(txs, w) == {txs[i].round : i \in {j \in DOMAIN txs : w \in {txs[j].from, txs[j].to}}}

\* The mean Jaccard similarity of the rounds, over the pairs that share one.
computeTemporalCorrelation(txs, nodes) ==
  LET shared(p) == RoundsOf(txs, nodes[p[1]]) \cap RoundsOf(txs, nodes[p[2]])
      either(p) == RoundsOf(txs, nodes[p[1]]) \cup RoundsOf(txs, nodes[p[2]])
      together == {p \in (DOMAIN nodes) \X (DOMAIN nodes) : p[1] < p[2] /\ shared(p) # {}}
      total == SumFunction(
        [p \in together |-> (100 * Cardinality(shared(p))) \div Cardinality(either(p))])
  IN  IF together = {} THEN 0 ELSE total \div Cardinality(together)

-----------------------------------------------------------------------------
computeGraphSignals(txs, nodes) ==
  LET adj == buildAdjacencyList(txs)
  IN  [neighborhoodClustering |-> computeAverageClustering(adj, nodes),
       hubScore |-> computeMaxHubScore(adj, nodes),
       intermediateDensity |-> computeAverageIntermediateDensity(adj, nodes),
       componentRatio |-> computeComponentRatio(adj, nodes),
       temporalCorrelation |-> computeTemporalCorrelation(txs, nodes),
       subGroupCount |-> Cardinality(findConnectedComponents(adj, nodes))]
=============================================================================
